---------------------------- MODULE Spec2Model ----------------------------
(***************************************************************************)
(* Pricing and categorisation engine of jersey-batch (lib/pricing.ts).     *)
(*                                                                         *)
(* A JavaScript string is modelled as a sequence of characters, each       *)
(* character being a one-character TLA+ string.  Two characters outside    *)
(* ASCII are written by code point: "U+017F" (LATIN SMALL LETTER LONG S)   *)
(* and "U+00DF" (LATIN SMALL LETTER SHARP S), because String.toUpperCase   *)
(* maps them to "S" and to "SS".                                           *)
(***************************************************************************)
EXTENDS Naturals, Integers, Sequences, FiniteSets, TLC

VARIABLES
    \* one caller of lib/pricing.ts: its arguments and what it got back
    product, itemType, size, result, priceResult, pc,
    \* history of that caller: calls made so far, one remembered call
    ncalls, earlier,
    \* the batch: state jerseys of the order page, passed to BatchCart as
    \* prop items, and what BatchCart computes from it
    jerseys, groupedItems, total,
    \* the order page: OrderForm keeps product, itemType and size above,
    \* OrderPage keeps jerseys above and these
    customerName, fbLink, phone, currentCustomerId, showConfirmation,
    \* the backend: tables customers and orders, and the next row id
    dbCustomers, dbOrders, nextId,
    \* the sign-in held by the auth backend, and hook useAdminAuth of the
    \* Admin page: its state, the route, its getSession request and its
    \* checkAdminRole calls in flight, the user id of the last one done
    authSession, user, isAdmin, authLoading, location,
    sessionRequest, lookups, roleChecked,
    \* the accounts: tables auth.users, profiles and user_roles as sign-ups
    \* fill them
    authUsers, dbProfiles, dbUserRoles,
    \* the Admin page: state orders
    adminOrders,
    \* the Reseller page: states customers and orders, and the last toast
    resellerCustomers, resellerOrders, resellerToast

pricingVars ==
    <<product, itemType, size, result, priceResult, pc>>

historyVars ==
    <<ncalls, earlier>>

batchVars ==
    <<jerseys, groupedItems, total>>

orderVars ==
    <<customerName, fbLink, phone, currentCustomerId, showConfirmation>>

backendVars ==
    <<dbCustomers, dbOrders, nextId>>

accountVars ==
    <<authUsers, dbProfiles, dbUserRoles>>

authVars ==
    <<authSession, user, isAdmin, authLoading, location,
      sessionRequest, lookups, roleChecked, accountVars>>

adminVars ==
    <<adminOrders>>

resellerVars ==
    <<resellerCustomers, resellerOrders, resellerToast>>

\* the pages that work on the backend
pagesVars ==
    <<backendVars, authVars, adminVars, resellerVars>>

\* everything but the caller of lib/pricing.ts
nonPricingVars ==
    <<batchVars, orderVars, pagesVars>>

vars ==
    <<pricingVars, historyVars, nonPricingVars>>

(***************************************************************************)
(* String literals of the source.                                          *)
(***************************************************************************)
\* "Jersey"
Str_Jersey ==
    <<"J", "e", "r", "s", "e", "y">>

\* "Junior Jerseys (4-6)"
Str_JuniorSmall ==
    <<"J", "u", "n", "i", "o", "r", " ", "J", "e", "r", "s", "e", "y", "s", " ", "(", "4", "-", "6", ")">>

\* "Junior Jerseys (8-20)"
Str_JuniorStandard ==
    <<"J", "u", "n", "i", "o", "r", " ", "J", "e", "r", "s", "e", "y", "s", " ", "(", "8", "-", "2", "0", ")">>

\* "Adult Standard"
Str_AdultStandard ==
    <<"A", "d", "u", "l", "t", " ", "S", "t", "a", "n", "d", "a", "r", "d">>

\* "Adult Plus Size (2XL-4XL)"
Str_AdultPlusLow ==
    <<"A", "d", "u", "l", "t", " ", "P", "l", "u", "s", " ", "S", "i", "z", "e", " ", "(", "2", "X", "L", "-", "4", "X", "L", ")">>

\* "Adult Plus Size (5XL-7XL)"
Str_AdultPlusHigh ==
    <<"A", "d", "u", "l", "t", " ", "P", "l", "u", "s", " ", "S", "i", "z", "e", " ", "(", "5", "X", "L", "-", "7", "X", "L", ")">>

\* "Unknown"
Str_Unknown ==
    <<"U", "n", "k", "n", "o", "w", "n">>

\* " (S-M Sizes)"
Sfx_SM ==
    <<" ", "(", "S", "-", "M", " ", "S", "i", "z", "e", "s", ")">>

\* " (L-XL Sizes)"
Sfx_LXL ==
    <<" ", "(", "L", "-", "X", "L", " ", "S", "i", "z", "e", "s", ")">>

\* " (Standard)"
Sfx_Standard ==
    <<" ", "(", "S", "t", "a", "n", "d", "a", "r", "d", ")">>

\* " (Plus Size 2XL-4XL)"
Sfx_PlusLow ==
    <<" ", "(", "P", "l", "u", "s", " ", "S", "i", "z", "e", " ", "2", "X", "L", "-", "4", "X", "L", ")">>

\* " (Plus Size 5XL-7XL)"
Sfx_PlusHigh ==
    <<" ", "(", "P", "l", "u", "s", " ", "S", "i", "z", "e", " ", "5", "X", "L", "-", "7", "X", "L", ")">>

(***************************************************************************)
(* The array literals getPriceDetails tests the size and product against.  *)
(***************************************************************************)
\* variant: size "6" left out of the first junior tier
JuniorSmallSizes_Without6 ==
    << <<"4">> >>

JuniorSmallSizes ==
    << <<"4">>,
       <<"6">> >>

\* variant: size "20" left out of the second junior tier
JuniorStandardSizes_Without20 ==
    << <<"8">>,
       <<"1", "0">>,
       <<"1", "2">>,
       <<"1", "4">>,
       <<"1", "6">>,
       <<"1", "8">> >>

JuniorStandardSizes ==
    << <<"8">>,
       <<"1", "0">>,
       <<"1", "2">>,
       <<"1", "4">>,
       <<"1", "6">>,
       <<"1", "8">>,
       <<"2", "0">> >>

\* variant: the spelled-out sizes left out
JerseyPlusLowSizes_AbbreviationsOnly ==
    << <<"2", "X", "L">>,
       <<"3", "X", "L">>,
       <<"4", "X", "L">> >>

JerseyPlusLowSizes ==
    << <<"2", "X", "L">>,
       <<"3", "X", "L">>,
       <<"4", "X", "L">>,
       <<"2", "X", "-", "L", "A", "R", "G", "E">>,
       <<"3", "X", "-", "L", "A", "R", "G", "E">>,
       <<"4", "X", "-", "L", "A", "R", "G", "E">> >>

JerseyPlusHighSizes ==
    << <<"5", "X", "L">>,
       <<"6", "X", "L">>,
       <<"7", "X", "L">>,
       <<"5", "X", "-", "L", "A", "R", "G", "E">>,
       <<"6", "X", "-", "L", "A", "R", "G", "E">>,
       <<"7", "X", "-", "L", "A", "R", "G", "E">> >>

FlatProducts ==
    << <<"T", "s", "h", "i", "r", "t">>,
       <<"S", "h", "o", "r", "t", "s">>,
       <<"P", "a", "n", "t", "s">>,
       <<"P", "o", "l", "o", " ", "S", "h", "i", "r", "t">>,
       <<"L", "o", "n", "g", "s", "l", "e", "e", "v", "e", "s">>,
       <<"H", "o", "o", "d", "i", "e">> >>

FlatTinySizes ==
    << <<"2", "X", "S">>,
       <<"X", "S">>,
       <<"2", "X", "S", "M", "A", "L", "L">>,
       <<"X", "S", "M", "A", "L", "L">> >>

\* variant: XL taken into the tier labelled "L-XL Sizes"
FlatSmallSizes_WithXL ==
    << <<"S">>,
       <<"M">>,
       <<"L">>,
       <<"X", "L">>,
       <<"S", "M", "A", "L", "L">>,
       <<"M", "E", "D", "I", "U", "M">>,
       <<"L", "A", "R", "G", "E">> >>

FlatSmallSizes ==
    << <<"S">>,
       <<"M">>,
       <<"L">>,
       <<"S", "M", "A", "L", "L">>,
       <<"M", "E", "D", "I", "U", "M">>,
       <<"L", "A", "R", "G", "E">> >>

FlatPlusLowSizes ==
    << <<"2", "X", "L">>,
       <<"3", "X", "L">>,
       <<"4", "X", "L">>,
       <<"2", "X", "-", "L", "A", "R", "G", "E">>,
       <<"3", "X", "-", "L", "A", "R", "G", "E">>,
       <<"4", "X", "-", "L", "A", "R", "G", "E">> >>

FlatPlusHighSizes ==
    << <<"5", "X", "L">>,
       <<"6", "X", "L">>,
       <<"7", "X", "L">>,
       <<"5", "X", "-", "L", "A", "R", "G", "E">>,
       <<"6", "X", "-", "L", "A", "R", "G", "E">>,
       <<"7", "X", "-", "L", "A", "R", "G", "E">> >>
(***************************************************************************)
(* String.prototype.toUpperCase.                                           *)
(***************************************************************************)
LowerCaseLetters ==
    << "a", "b", "c", "d", "e", "f", "g", "h", "i", "j", "k", "l", "m",
       "n", "o", "p", "q", "r", "s", "t", "u", "v", "w", "x", "y", "z" >>

UpperCaseLetters ==
    << "A", "B", "C", "D", "E", "F", "G", "H", "I", "J", "K", "L", "M",
       "N", "O", "P", "Q", "R", "S", "T", "U", "V", "W", "X", "Y", "Z" >>

\* the upper-case mapping of one character: a string of one or two characters
toUpperCaseChar(c) ==
    IF \E i \in DOMAIN LowerCaseLetters : LowerCaseLetters[i] = c
    THEN << UpperCaseLetters[CHOOSE i \in DOMAIN LowerCaseLetters :
                                 LowerCaseLetters[i] = c] >>
    ELSE IF c = "U+017F" THEN << "S" >>
    ELSE IF c = "U+00DF" THEN << "S", "S" >>
    ELSE << c >>

RECURSIVE toUpperCase(_)
toUpperCase(str) ==
    IF str = << >> THEN << >>
    ELSE toUpperCaseChar(Head(str)) \o toUpperCase(Tail(str))

(***************************************************************************)
(* String.prototype.includes and Array.prototype.includes.                 *)
(***************************************************************************)
\* variant: the search ignores case
StringIncludes_IgnoreCase(str, search) ==
    \E i \in 1..(Len(str) + 1) :
        /\ i + Len(search) - 1 <= Len(str)
        /\ toUpperCase(SubSeq(str, i, i + Len(search) - 1))
               = toUpperCase(search)

StringIncludes(str, search) ==
    \E i \in 1..(Len(str) + 1) :
        /\ i + Len(search) - 1 <= Len(str)
        /\ SubSeq(str, i, i + Len(search) - 1) = search

ArrayIncludes(array, element) ==
    \E i \in DOMAIN array : array[i] = element

(***************************************************************************)
(* getPriceDetails: the jersey branch, the flat-goods branch, the whole.   *)
(***************************************************************************)
PricingResult(price, category) ==
    [price |-> price, category |-> category]

\* variant: the adult tiers charge a partial price too
JerseyPriceDetails_PartialAdult(type, s) ==
    IF ArrayIncludes(JuniorSmallSizes, s)
    THEN PricingResult(IF type = "Set" THEN 250 ELSE 150, Str_JuniorSmall)
    ELSE IF ArrayIncludes(JuniorStandardSizes, s)
    THEN PricingResult(IF type = "Set" THEN 380 ELSE 200, Str_JuniorStandard)
    ELSE IF ArrayIncludes(JerseyPlusLowSizes, s)
    THEN PricingResult((IF type = "Set" THEN 280 ELSE 180) + 30,
                       Str_AdultPlusLow)
    ELSE IF ArrayIncludes(JerseyPlusHighSizes, s)
    THEN PricingResult((IF type = "Set" THEN 280 ELSE 180) + 50,
                       Str_AdultPlusHigh)
    ELSE PricingResult(IF type = "Set" THEN 280 ELSE 180, Str_AdultStandard)

\* the body of `if (p.includes("Jersey"))`; s is the upper-cased size
JerseyPriceDetails(type, s) ==
    IF ArrayIncludes(JuniorSmallSizes, s)
    THEN PricingResult(IF type = "Set" THEN 250 ELSE 150, Str_JuniorSmall)
    ELSE IF ArrayIncludes(JuniorStandardSizes, s)
    THEN PricingResult(IF type = "Set" THEN 380 ELSE 200, Str_JuniorStandard)
    ELSE IF ArrayIncludes(JerseyPlusLowSizes, s)
    THEN PricingResult(280 + 30, Str_AdultPlusLow)
    ELSE IF ArrayIncludes(JerseyPlusHighSizes, s)
    THEN PricingResult(280 + 50, Str_AdultPlusHigh)
    ELSE PricingResult(280, Str_AdultStandard)

\* variant: the second surcharge comes on top of the first
FlatPriceDetails_StackedSurcharge(p, s) ==
    IF ArrayIncludes(FlatTinySizes, s)
    THEN PricingResult(280, p \o Sfx_SM)
    ELSE IF ArrayIncludes(FlatSmallSizes, s)
    THEN PricingResult(300, p \o Sfx_LXL)
    ELSE IF ArrayIncludes(FlatPlusLowSizes, s)
    THEN PricingResult(320 + 30, p \o Sfx_PlusLow)
    ELSE IF ArrayIncludes(FlatPlusHighSizes, s)
    THEN PricingResult(320 + 30 + 50, p \o Sfx_PlusHigh)
    ELSE PricingResult(320, p \o Sfx_Standard)

\* variant: the junior numeric sizes priced as junior for flat goods too
FlatPriceDetails_JuniorTier(p, s) ==
    IF ArrayIncludes(JuniorSmallSizes, s) \/ ArrayIncludes(JuniorStandardSizes, s)
    THEN PricingResult(250, p \o Sfx_SM)
    ELSE IF ArrayIncludes(FlatTinySizes, s)
    THEN PricingResult(280, p \o Sfx_SM)
    ELSE IF ArrayIncludes(FlatSmallSizes, s)
    THEN PricingResult(300, p \o Sfx_LXL)
    ELSE IF ArrayIncludes(FlatPlusLowSizes, s)
    THEN PricingResult(320 + 30, p \o Sfx_PlusLow)
    ELSE IF ArrayIncludes(FlatPlusHighSizes, s)
    THEN PricingResult(320 + 50, p \o Sfx_PlusHigh)
    ELSE PricingResult(320, p \o Sfx_Standard)

\* the body of `if ([...flat goods...].includes(p))`; s is the upper-cased size
FlatPriceDetails(p, s) ==
    IF ArrayIncludes(FlatTinySizes, s)
    THEN PricingResult(280, p \o Sfx_SM)
    ELSE IF ArrayIncludes(FlatSmallSizes, s)
    THEN PricingResult(300, p \o Sfx_LXL)
    ELSE IF ArrayIncludes(FlatPlusLowSizes, s)
    THEN PricingResult(320 + 30, p \o Sfx_PlusLow)
    ELSE IF ArrayIncludes(FlatPlusHighSizes, s)
    THEN PricingResult(320 + 50, p \o Sfx_PlusHigh)
    ELSE PricingResult(320, p \o Sfx_Standard)

\* variant: basePrice lives outside the function and keeps the surcharges
\* of the calls made before
getPriceDetails_SharedBasePrice(prod, type, sz) ==
    LET s == toUpperCase(sz)
        p == prod
    IN  IF StringIncludes(p, Str_Jersey)
        THEN IF ArrayIncludes(JerseyPlusLowSizes, s)
             THEN PricingResult(280 + 30 * (ncalls + 1), Str_AdultPlusLow)
             ELSE JerseyPriceDetails(type, s)
        ELSE IF ArrayIncludes(FlatProducts, p)
        THEN FlatPriceDetails(p, s)
        ELSE PricingResult(0, Str_Unknown)

\* variant: no return after the two product branches
getPriceDetails_NoFallbackReturn(prod, type, sz) ==
    LET s == toUpperCase(sz)
        p == prod
    IN  IF StringIncludes(p, Str_Jersey)
        THEN JerseyPriceDetails(type, s)
        ELSE IF ArrayIncludes(FlatProducts, p)
        THEN FlatPriceDetails(p, s)
        ELSE [undefined |-> TRUE]

\* variant: the flat-goods branch matches the size as given
getPriceDetails_RawSizeForFlatGoods(prod, type, sz) ==
    LET s == toUpperCase(sz)
        p == prod
    IN  IF StringIncludes(p, Str_Jersey)
        THEN JerseyPriceDetails(type, s)
        ELSE IF ArrayIncludes(FlatProducts, p)
        THEN FlatPriceDetails(p, sz)
        ELSE PricingResult(0, Str_Unknown)

RECURSIVE TrimStart(_)
TrimStart(str) ==
    IF str # << >> /\ Head(str) = " " THEN TrimStart(Tail(str)) ELSE str

RECURSIVE TrimEnd(_)
TrimEnd(str) ==
    IF str # << >> /\ str[Len(str)] = " "
    THEN TrimEnd(SubSeq(str, 1, Len(str) - 1))
    ELSE str

\* variant: the size is trimmed before it is upper-cased
getPriceDetails_TrimmedSize(prod, type, sz) ==
    LET s == toUpperCase(TrimEnd(TrimStart(sz)))
        p == prod
    IN  IF StringIncludes(p, Str_Jersey)
        THEN JerseyPriceDetails(type, s)
        ELSE IF ArrayIncludes(FlatProducts, p)
        THEN FlatPriceDetails(p, s)
        ELSE PricingResult(0, Str_Unknown)

getPriceDetails(prod, type, sz) ==
    LET s == toUpperCase(sz)
        p == prod
    IN  IF StringIncludes(p, Str_Jersey)
        THEN JerseyPriceDetails(type, s)
        ELSE IF ArrayIncludes(FlatProducts, p)
        THEN FlatPriceDetails(p, s)
        ELSE PricingResult(0, Str_Unknown)

\* variant: the price is always the one of a full set
calculatePrice_AlwaysSet(prod, type, sz) ==
    getPriceDetails(prod, "Set", sz).price

calculatePrice(prod, type, sz) ==
    getPriceDetails(prod, type, sz).price

(***************************************************************************)
(* Arguments the calls are made with.                                      *)
(***************************************************************************)
\* the jersey members of type ProductType
JerseyProducts ==
    { <<"B", "a", "s", "k", "e", "t", "b", "a", "l", "l", " ", "J", "e", "r", "s", "e", "y">>,
      <<"V", "o", "l", "l", "e", "y", "b", "a", "l", "l", " ", "J", "e", "r", "s", "e", "y">>,
      <<"E", "s", "p", "o", "r", "t", "s", " ", "J", "e", "r", "s", "e", "y">> }

\* the other members of type ProductType
FlatGoodsProducts ==
    { <<"T", "s", "h", "i", "r", "t">>,
      <<"S", "h", "o", "r", "t", "s">>,
      <<"H", "o", "o", "d", "i", "e">>,
      <<"L", "o", "n", "g", "s", "l", "e", "e", "v", "e", "s">>,
      <<"P", "o", "l", "o", " ", "S", "h", "i", "r", "t">>,
      <<"P", "a", "n", "t", "s">> }

\* strings outside ProductType (the parameter is typed string)
OtherProducts ==
    { <<"S", "o", "c", "c", "e", "r", " ", "J", "e", "r", "s", "e", "y">>,
      <<"J", "e", "r", "s", "e", "y">>,
      <<"b", "a", "s", "k", "e", "t", "b", "a", "l", "l", " ", "j", "e", "r", "s", "e", "y">>,
      <<"B", "A", "S", "K", "E", "T", "B", "A", "L", "L", " ", "J", "E", "R", "S", "E", "Y">>,
      <<"U", "n", "k", "n", "o", "w", "n", " ", "P", "r", "o", "d", "u", "c", "t">>,
      <<"t", "s", "h", "i", "r", "t">>,
      <<"T", "s", "h", "i", "r", "t", " ">>,
      <<"P", "o", "l", "o">>,
      <<"J", "e", "r", "s", "e">>,
      <<>> }

Products ==
    JerseyProducts \cup FlatGoodsProducts \cup OtherProducts

\* type ItemType, and strings outside it (the parameter is typed string)
ItemTypes ==
    {"Set", "Upper", "Lower", "set", ""}

\* size tokens already in upper case
UpperSizes ==
    { <<"4">>,
      <<"6">>,
      <<"8">>,
      <<"1", "0">>,
      <<"1", "2">>,
      <<"1", "4">>,
      <<"1", "6">>,
      <<"1", "8">>,
      <<"2", "0">>,
      <<"2", "X", "L">>,
      <<"3", "X", "L">>,
      <<"4", "X", "L">>,
      <<"2", "X", "-", "L", "A", "R", "G", "E">>,
      <<"3", "X", "-", "L", "A", "R", "G", "E">>,
      <<"4", "X", "-", "L", "A", "R", "G", "E">>,
      <<"5", "X", "L">>,
      <<"6", "X", "L">>,
      <<"7", "X", "L">>,
      <<"5", "X", "-", "L", "A", "R", "G", "E">>,
      <<"6", "X", "-", "L", "A", "R", "G", "E">>,
      <<"7", "X", "-", "L", "A", "R", "G", "E">>,
      <<"2", "X", "S">>,
      <<"X", "S">>,
      <<"2", "X", "S", "M", "A", "L", "L">>,
      <<"X", "S", "M", "A", "L", "L">>,
      <<"S">>,
      <<"M">>,
      <<"L">>,
      <<"S", "M", "A", "L", "L">>,
      <<"M", "E", "D", "I", "U", "M">>,
      <<"L", "A", "R", "G", "E">>,
      <<"X", "L">>,
      <<"X", "X", "L">>,
      <<"X", "X", "X", "L">>,
      <<"X", "-", "L", "A", "R", "G", "E">>,
      <<"1", "X", "L">>,
      <<"8", "X", "L">>,
      <<"2">>,
      <<"2", "2">>,
      <<"0", "4">>,
      <<"S", "S">> }

\* size tokens in lower or mixed case, empty, or with surrounding spaces
OtherSizes ==
    { <<"x", "l">>,
      <<"m">>,
      <<"s">>,
      <<"x", "s">>,
      <<"2", "x", "s">>,
      <<"3", "x", "l">>,
      <<"6", "x", "l">>,
      <<"2", "x", "-", "l", "a", "r", "g", "e">>,
      <<"5", "x", "-", "L", "a", "r", "g", "e">>,
      <<"m", "e", "d", "i", "u", "m">>,
      <<"L", "a", "r", "g", "e">>,
      <<"x", "s", "m", "a", "l", "l">>,
      <<"X", "l">>,
      <<"x", "x", "l">>,
      <<"U+017F">>,
      <<"U+017F", "m", "a", "l", "l">>,
      <<"U+00DF">>,
      <<"x", "U+017F">>,
      <<>>,
      <<" ">>,
      <<" ", "M">>,
      <<"M", " ">>,
      <<" ", "4">>,
      <<"6", " ">>,
      <<"3", "X", "L", " ">>,
      <<" ", "x", "s">> }

Sizes ==
    UpperSizes \cup OtherSizes
(***************************************************************************)
(* The caller: it holds three arguments, calls getPriceDetails, and then   *)
(* changes one argument for the next call.                                 *)
(***************************************************************************)
\* a value that may be missing (undefined, null): << >> when it is missing,
\* <<v>> when it is v
None ==
    << >>

Some(v) ==
    <<v>>

\* no call has returned for the current arguments
NoResult ==
    [pending |-> TRUE]

\* no call is remembered
NoCall ==
    [none |-> TRUE]

\* the other parts of the program at rest
\* the caller of lib/pricing.ts at rest
PricingIdle ==
    /\ product = << >>
    /\ itemType = ""
    /\ size = << >>
    /\ result = NoResult
    /\ priceResult = None
    /\ pc = "idle"
    /\ ncalls = 0
    /\ earlier = NoCall

BatchIdle ==
    /\ jerseys = << >>
    /\ groupedItems = << >>
    /\ total = 0

\* the order page not opened
OrderIdle ==
    /\ customerName = << >>
    /\ fbLink = << >>
    /\ phone = << >>
    /\ currentCustomerId = None
    /\ showConfirmation = FALSE

BackendIdle ==
    /\ dbCustomers = << >>
    /\ dbOrders = << >>
    /\ nextId = 1

\* nobody signs up
AccountsIdle ==
    /\ authUsers = << >>
    /\ dbProfiles = << >>
    /\ dbUserRoles = << >>

\* hook useAdminAuth not mounted
HookIdle ==
    /\ user = None
    /\ isAdmin = FALSE
    /\ authLoading = TRUE
    /\ location = "/"
    /\ sessionRequest = FALSE
    /\ lookups = {}
    /\ roleChecked = None

\* nobody signed in, the Admin page not opened
AuthIdle ==
    /\ authSession = None
    /\ HookIdle
    /\ AccountsIdle

AdminIdle ==
    adminOrders = << >>

ResellerIdle ==
    /\ resellerCustomers = << >>
    /\ resellerOrders = << >>
    /\ resellerToast = None

PagesIdle ==
    /\ BackendIdle
    /\ AuthIdle
    /\ AdminIdle
    /\ ResellerIdle

NonPricingIdle ==
    /\ BatchIdle
    /\ OrderIdle
    /\ PagesIdle

Init ==
    /\ product \in Products
    /\ itemType \in ItemTypes
    /\ size \in Sizes
    /\ result = NoResult
    /\ priceResult = None
    /\ pc = "call"
    /\ ncalls = 0
    /\ earlier = NoCall
    /\ NonPricingIdle

\* result = getPriceDetails(product, itemType, size)
Call ==
    /\ pc = "call"
    /\ result' = getPriceDetails(product, itemType, size)
    /\ pc' = "returned"
    /\ UNCHANGED <<product, itemType, size, priceResult>>
    /\ UNCHANGED <<historyVars, nonPricingVars>>

\* priceResult = calculatePrice(product, itemType, size)
CalculatePrice ==
    /\ pc = "returned"
    /\ priceResult = None
    /\ priceResult' = Some(calculatePrice(product, itemType, size))
    /\ UNCHANGED <<product, itemType, size, result, pc>>
    /\ UNCHANGED <<historyVars, nonPricingVars>>

SetProduct ==
    /\ pc = "returned"
    /\ \E p \in Products \ {product} : product' = p
    /\ result' = NoResult
    /\ priceResult' = None
    /\ pc' = "call"
    /\ UNCHANGED <<itemType, size>>
    /\ UNCHANGED <<historyVars, nonPricingVars>>

SetItemType ==
    /\ pc = "returned"
    /\ \E t \in ItemTypes \ {itemType} : itemType' = t
    /\ result' = NoResult
    /\ priceResult' = None
    /\ pc' = "call"
    /\ UNCHANGED <<product, size>>
    /\ UNCHANGED <<historyVars, nonPricingVars>>

SetSize ==
    /\ pc = "returned"
    /\ \E s \in Sizes \ {size} : size' = s
    /\ result' = NoResult
    /\ priceResult' = None
    /\ pc' = "call"
    /\ UNCHANGED <<product, itemType>>
    /\ UNCHANGED <<historyVars, nonPricingVars>>

Next ==
    \/ Call
    \/ CalculatePrice
    \/ SetProduct
    \/ SetItemType
    \/ SetSize

Spec ==
    Init /\ [][Next]_vars

TypeOK ==
    /\ product \in Products
    /\ itemType \in ItemTypes
    /\ size \in Sizes
    /\ pc \in {"call", "returned"}
    /\ pc = "call" => result = NoResult /\ priceResult = None

Returned ==
    pc = "returned"

(***************************************************************************)
(* Vocabulary of the properties, written independently of the arrays and   *)
(* operators above.                                                        *)
(***************************************************************************)
JuniorSmallTokens ==
    { <<"4">>,
      <<"6">> }

JuniorStandardTokens ==
    { <<"8">>,
      <<"1", "0">>,
      <<"1", "2">>,
      <<"1", "4">>,
      <<"1", "6">>,
      <<"1", "8">>,
      <<"2", "0">> }

PlusLowAbbreviations ==
    { <<"2", "X", "L">>,
      <<"3", "X", "L">>,
      <<"4", "X", "L">> }

PlusLowSpelledOut ==
    { <<"2", "X", "-", "L", "A", "R", "G", "E">>,
      <<"3", "X", "-", "L", "A", "R", "G", "E">>,
      <<"4", "X", "-", "L", "A", "R", "G", "E">> }

PlusHighAbbreviations ==
    { <<"5", "X", "L">>,
      <<"6", "X", "L">>,
      <<"7", "X", "L">> }

PlusHighSpelledOut ==
    { <<"5", "X", "-", "L", "A", "R", "G", "E">>,
      <<"6", "X", "-", "L", "A", "R", "G", "E">>,
      <<"7", "X", "-", "L", "A", "R", "G", "E">> }

TinyAbbreviations ==
    { <<"2", "X", "S">>,
      <<"X", "S">> }

TinySpelledOut ==
    { <<"2", "X", "S", "M", "A", "L", "L">>,
      <<"X", "S", "M", "A", "L", "L">> }

SmallAbbreviations ==
    { <<"S">>,
      <<"M">>,
      <<"L">> }

SmallSpelledOut ==
    { <<"S", "M", "A", "L", "L">>,
      <<"M", "E", "D", "I", "U", "M">>,
      <<"L", "A", "R", "G", "E">> }

BasketballJersey ==
    <<"B", "a", "s", "k", "e", "t", "b", "a", "l", "l", " ", "J", "e", "r", "s", "e", "y">>

LowerCaseBasketballJersey ==
    <<"b", "a", "s", "k", "e", "t", "b", "a", "l", "l", " ", "j", "e", "r", "s", "e", "y">>

Hoodie ==
    <<"H", "o", "o", "d", "i", "e">>

Size_6 ==
    <<"6">>

Size_20 ==
    <<"2", "0">>

Size_3X_LARGE ==
    <<"3", "X", "-", "L", "A", "R", "G", "E">>

Size_MEDIUM ==
    <<"M", "E", "D", "I", "U", "M">>

Size_medium ==
    <<"m", "e", "d", "i", "u", "m">>

Size_M ==
    <<"M">>

Size_SpaceM ==
    <<" ", "M">>

Size_6XL ==
    <<"6", "X", "L">>
\* a substring test that does not go through StringIncludes
Contains(str, sub) ==
    \E i \in 0..Len(str) : \E j \in i..Len(str) : SubSeq(str, i + 1, j) = sub

IsString(v) ==
    /\ DOMAIN v = 1..Len(v)
    /\ \A i \in DOMAIN v : v[i] \in STRING

Quote(price, category) ==
    [price |-> price, category |-> category]

UnknownQuote ==
    Quote(0, Str_Unknown)

\* the rows of the jersey-family pricing table
JerseyFamilyQuotes ==
    { Quote(250, Str_JuniorSmall), Quote(150, Str_JuniorSmall),
      Quote(380, Str_JuniorStandard), Quote(200, Str_JuniorStandard),
      Quote(280, Str_AdultStandard), Quote(310, Str_AdultPlusLow),
      Quote(330, Str_AdultPlusHigh) }

JuniorTokens ==
    JuniorSmallTokens \cup JuniorStandardTokens

Coverages ==
    {"Set", "Upper", "Lower"}

(***************************************************************************)
(* C1. getPriceDetails is total: whatever the product, coverage and size   *)
(* strings, the call returns a {price, category} object, price a number    *)
(* and category a string, never an error value and never nothing.          *)
(***************************************************************************)
C1_Total ==
    Returned =>
        /\ DOMAIN result = {"price", "category"}
        /\ result.price \in Nat
        /\ IsString(result.category)

C1_Witness ==
    /\ Returned
    /\ product = << >>
    /\ itemType = ""
    /\ size = << >>
    /\ result = UnknownQuote

(***************************************************************************)
(* C2. Every productType that is neither one of the three jersey values    *)
(* nor one of the six flat-goods values is quoted price 0, category        *)
(* "Unknown", for every coverage and size.                                 *)
(***************************************************************************)
C2_UnknownOutsideFixedSets ==
    (Returned /\ product \notin JerseyProducts \cup FlatGoodsProducts)
        => result = UnknownQuote

(***************************************************************************)
(* C3. A productType is priced as jersey family exactly when it contains   *)
(* "Jersey" with that capitalisation; one that contains it only in another *)
(* case, and is not a flat-goods value, is quoted 0 / "Unknown".           *)
(***************************************************************************)
ContainsJerseyInOtherCaseOnly(p) ==
    /\ ~Contains(p, Str_Jersey)
    /\ Contains(toUpperCase(p), toUpperCase(Str_Jersey))

C3_JerseyIffSubstring ==
    Returned =>
        /\ (result \in JerseyFamilyQuotes) <=> Contains(product, Str_Jersey)
        /\ (ContainsJerseyInOtherCaseOnly(product)
              /\ product \notin FlatGoodsProducts) => result = UnknownQuote

C3_Witness ==
    /\ Returned
    /\ product = LowerCaseBasketballJersey
    /\ size = Size_M
    /\ result = UnknownQuote

(***************************************************************************)
(* C4. A recognized jersey productType with size "4" or "6" is quoted      *)
(* "Junior Jerseys (4-6)", 250 for coverage "Set" and 150 for any other    *)
(* coverage.                                                               *)
(***************************************************************************)
C4_JuniorSmall ==
    (Returned /\ product \in JerseyProducts /\ size \in JuniorSmallTokens)
        => result = Quote(IF itemType = "Set" THEN 250 ELSE 150,
                          Str_JuniorSmall)

C4_Witness ==
    /\ Returned
    /\ product = BasketballJersey
    /\ size = Size_6
    /\ itemType = "Upper"
    /\ result.price = 150

(***************************************************************************)
(* C5. A recognized jersey productType with size 8, 10, 12, 14, 16, 18 or  *)
(* 20 is quoted "Junior Jerseys (8-20)", 380 for coverage "Set" and 200    *)
(* for any other coverage.                                                 *)
(***************************************************************************)
C5_JuniorStandard ==
    (Returned /\ product \in JerseyProducts /\ size \in JuniorStandardTokens)
        => result = Quote(IF itemType = "Set" THEN 380 ELSE 200,
                          Str_JuniorStandard)

C5_Witness ==
    /\ Returned
    /\ product \in JerseyProducts
    /\ size = Size_20
    /\ itemType = "Set"
    /\ result.price = 380

(***************************************************************************)
(* C6. A jersey productType with a non-junior size is quoted 310 / "Adult  *)
(* Plus Size (2XL-4XL)" for 2XL, 3XL, 4XL and 2X-LARGE, 3X-LARGE,          *)
(* 4X-LARGE; 330 / "Adult Plus Size (5XL-7XL)" for 5XL, 6XL, 7XL and       *)
(* 5X-LARGE, 6X-LARGE, 7X-LARGE; 280 / "Adult Standard" otherwise.  The    *)
(* size is compared in upper case.                                         *)
(***************************************************************************)
C6_JerseyAdult ==
    LET u == toUpperCase(size)
    IN  (Returned /\ product \in JerseyProducts /\ u \notin JuniorTokens)
            => result =
                 IF u \in PlusLowAbbreviations \cup PlusLowSpelledOut
                 THEN Quote(310, Str_AdultPlusLow)
                 ELSE IF u \in PlusHighAbbreviations \cup PlusHighSpelledOut
                 THEN Quote(330, Str_AdultPlusHigh)
                 ELSE Quote(280, Str_AdultStandard)

C6_Witness ==
    /\ Returned
    /\ product \in JerseyProducts
    /\ size = Size_3X_LARGE
    /\ result = Quote(310, Str_AdultPlusLow)

(***************************************************************************)
(* C7 as stated.  A flat-goods productType p is quoted 280 / "p (S-M       *)
(* Sizes)" for 2XS and XS, 300 / "p (L-XL Sizes)" for S, M and L, 350 /    *)
(* "p (Plus Size 2XL-4XL)" for 2XL-4XL, 370 / "p (Plus Size 5XL-7XL)" for  *)
(* 5XL-7XL, and 320 / "p (Standard)" for every other size.  The size is    *)
(* compared in upper case.                                                 *)
(***************************************************************************)
C7_FlatAbbreviationsOnly ==
    LET u == toUpperCase(size)
    IN  (Returned /\ product \in FlatGoodsProducts)
            => result =
                 IF u \in TinyAbbreviations
                 THEN Quote(280, product \o Sfx_SM)
                 ELSE IF u \in SmallAbbreviations
                 THEN Quote(300, product \o Sfx_LXL)
                 ELSE IF u \in PlusLowAbbreviations
                 THEN Quote(350, product \o Sfx_PlusLow)
                 ELSE IF u \in PlusHighAbbreviations
                 THEN Quote(370, product \o Sfx_PlusHigh)
                 ELSE Quote(320, product \o Sfx_Standard)

(***************************************************************************)
(* C7 as amended.  The same table, where each tier also takes the          *)
(* spelled-out forms of its sizes: 2XSMALL and XSMALL with 2XS and XS;     *)
(* SMALL, MEDIUM and LARGE with S, M and L; 2X-LARGE to 4X-LARGE with 2XL  *)
(* to 4XL; 5X-LARGE to 7X-LARGE with 5XL to 7XL.  Every other size, XL     *)
(* included, is 320 / "p (Standard)".                                      *)
(***************************************************************************)
C7_FlatWithSpelledOut ==
    LET u == toUpperCase(size)
    IN  (Returned /\ product \in FlatGoodsProducts)
            => result =
                 IF u \in TinyAbbreviations \cup TinySpelledOut
                 THEN Quote(280, product \o Sfx_SM)
                 ELSE IF u \in SmallAbbreviations \cup SmallSpelledOut
                 THEN Quote(300, product \o Sfx_LXL)
                 ELSE IF u \in PlusLowAbbreviations \cup PlusLowSpelledOut
                 THEN Quote(350, product \o Sfx_PlusLow)
                 ELSE IF u \in PlusHighAbbreviations \cup PlusHighSpelledOut
                 THEN Quote(370, product \o Sfx_PlusHigh)
                 ELSE Quote(320, product \o Sfx_Standard)

C7_Witness ==
    /\ Returned
    /\ product = Hoodie
    /\ size = Size_MEDIUM
    /\ result = Quote(300, Hoodie \o Sfx_LXL)

(***************************************************************************)
(* C8. For a jersey productType with a non-junior size, and for a          *)
(* flat-goods productType with any size, the quote is the same for         *)
(* coverage Set, Upper and Lower.                                          *)
(***************************************************************************)
C8_CoverageIrrelevant ==
    (/\ Returned
     /\ \/ /\ product \in JerseyProducts
           /\ toUpperCase(size) \notin JuniorTokens
        \/ product \in FlatGoodsProducts)
        => \A c \in Coverages : getPriceDetails(product, c, size) = result

C8_Witness ==
    /\ Returned
    /\ product = BasketballJersey
    /\ size = Size_6XL
    /\ itemType = "Lower"
    /\ result = Quote(330, Str_AdultPlusHigh)

(***************************************************************************)
(* C9. The quote of a size string is the quote of its upper-case form,     *)
(* for every productType and coverage.                                     *)
(***************************************************************************)
C9_CaseInsensitive ==
    Returned => result = getPriceDetails(product, itemType, toUpperCase(size))

C9_Witness ==
    /\ Returned
    /\ product = Hoodie
    /\ size = Size_medium
    /\ result = Quote(300, Hoodie \o Sfx_LXL)

(***************************************************************************)
(* C10. A recognized productType with a size whose upper-case form is in   *)
(* none of the size sets of its family (the empty string and tokens with   *)
(* surrounding spaces included) is quoted adult standard: 280 / "Adult     *)
(* Standard" for a jersey, 320 / "p (Standard)" for flat goods p.          *)
(***************************************************************************)
JerseyListedTokens ==
    JuniorTokens \cup PlusLowAbbreviations \cup PlusLowSpelledOut
        \cup PlusHighAbbreviations \cup PlusHighSpelledOut

FlatListedTokens ==
    TinyAbbreviations \cup TinySpelledOut
        \cup SmallAbbreviations \cup SmallSpelledOut
        \cup PlusLowAbbreviations \cup PlusLowSpelledOut
        \cup PlusHighAbbreviations \cup PlusHighSpelledOut

C10_UnlistedSizeIsStandard ==
    LET u == toUpperCase(size)
    IN  /\ (Returned /\ product \in JerseyProducts
                /\ u \notin JerseyListedTokens)
              => result = Quote(280, Str_AdultStandard)
        /\ (Returned /\ product \in FlatGoodsProducts
                /\ u \notin FlatListedTokens)
              => result = Quote(320, product \o Sfx_Standard)

C10_Witness ==
    /\ Returned
    /\ product = Hoodie
    /\ size = Size_SpaceM
    /\ result = Quote(320, Hoodie \o Sfx_Standard)

(***************************************************************************)
(* A caller that repeats calls: it counts its calls and remembers one of   *)
(* them, to compare a later call with the same arguments against it.       *)
(***************************************************************************)
MaxCalls ==
    3

RepeatProducts ==
    {BasketballJersey, Hoodie, LowerCaseBasketballJersey}

RepeatItemTypes ==
    {"Set", "Upper"}

RepeatSizes ==
    {Size_6, Size_3X_LARGE, Size_medium}

RepeatInit ==
    /\ product \in RepeatProducts
    /\ itemType \in RepeatItemTypes
    /\ size \in RepeatSizes
    /\ result = NoResult
    /\ priceResult = None
    /\ pc = "call"
    /\ ncalls = 0
    /\ earlier = NoCall
    /\ NonPricingIdle

\* result = getPriceDetails(product, itemType, size), counted, and
\* remembered or not
CountedCall ==
    /\ pc = "call"
    /\ ncalls < MaxCalls
    /\ result' = getPriceDetails(product, itemType, size)
    /\ pc' = "returned"
    /\ ncalls' = ncalls + 1
    /\ \E remember \in BOOLEAN :
          earlier' = IF remember
                     THEN [product |-> product, itemType |-> itemType,
                           size |-> size, at |-> ncalls + 1,
                           result |-> getPriceDetails(product, itemType, size)]
                     ELSE earlier
    /\ UNCHANGED <<product, itemType, size, priceResult>>
    /\ UNCHANGED nonPricingVars

NextArguments ==
    /\ pc = "returned"
    /\ product' \in RepeatProducts
    /\ itemType' \in RepeatItemTypes
    /\ size' \in RepeatSizes
    /\ result' = NoResult
    /\ pc' = "call"
    /\ UNCHANGED <<priceResult, historyVars, nonPricingVars>>

RepeatNext ==
    \/ CountedCall
    \/ NextArguments

RepeatSpec ==
    RepeatInit /\ [][RepeatNext]_vars

StatedPrices ==
    {0, 150, 200, 250, 280, 300, 310, 320, 330, 350, 370}

C12_StatedPriceRange ==
    Returned =>
        /\ result.price \in StatedPrices
        /\ (result.price = 0) <=> (result.category = Str_Unknown)

(***************************************************************************)
(* C12 as amended.  The price returned is one of 0, 150, 200, 250, 280,    *)
(* 300, 310, 320, 330, 350, 370, 380, and it is 0 exactly when the         *)
(* category is "Unknown".                                                  *)
(***************************************************************************)
C12_PriceRange ==
    Returned =>
        /\ result.price \in StatedPrices \cup {380}
        /\ (result.price = 0) <=> (result.category = Str_Unknown)

C12_Witness ==
    /\ Returned
    /\ product = BasketballJersey
    /\ itemType = "Set"
    /\ size = Size_20
    /\ result.price = 380

(***************************************************************************)
(* C13. calculatePrice(productType, coverage, size) is the price field of  *)
(* getPriceDetails(productType, coverage, size).                           *)
(***************************************************************************)
C13_CalculatePriceIsPriceField ==
    (Returned /\ priceResult # None) => priceResult = Some(result.price)

C13_Witness ==
    /\ Returned
    /\ product = BasketballJersey
    /\ itemType = "Upper"
    /\ size = Size_6
    /\ priceResult = Some(150)
    /\ result.price = 150

(***************************************************************************)
(* BatchCart: the groups and the total it computes from its prop items.    *)
(***************************************************************************)
\* x || "" for an optional string x
OrEmptyString(x) ==
    IF x = None \/ x[1] = << >> THEN << >> ELSE x[1]

\* x || 0 for an optional number x
OrZero(x) ==
    IF x = None \/ x[1] = 0 THEN 0 ELSE x[1]

\* `${item.customerName}-${item.customerPhone || ""}`
CustomerKey(item) ==
    item.customerName \o <<"-">> \o OrEmptyString(item.customerPhone)

\* the callback of items.forEach; groups lists the properties of the object
\* in the order Object.entries gives them, which is the order they were
\* added in: no key is an array index, as every key holds a "-"
GroupsForEach(groups, item) ==
    LET key == CustomerKey(item)
    IN  IF \E g \in DOMAIN groups : groups[g].key = key
        THEN [g \in DOMAIN groups |->
                IF groups[g].key = key
                THEN [groups[g] EXCEPT !.items = Append(@, item)]
                ELSE groups[g]]
        ELSE Append(groups, [key |-> key, items |-> <<item>>])

RECURSIVE GroupsOver(_, _)
GroupsOver(items, groups) ==
    IF items = << >> THEN groups
    ELSE GroupsOver(Tail(items), GroupsForEach(groups, Head(items)))

\* useMemo of groupedItems
GroupedItemsOf(items) ==
    GroupsOver(items, << >>)

\* variant: (sum + item.price) || 0
TotalReducer_WrongPrecedence(sum, item) ==
    IF item.price = None THEN 0 ELSE sum + item.price[1]

\* (sum, item) => sum + (item.price || 0)
TotalReducer(sum, item) ==
    sum + OrZero(item.price)

RECURSIVE TotalOver(_, _)
TotalOver(items, sum) ==
    IF items = << >> THEN sum
    ELSE TotalOver(Tail(items), TotalReducer(sum, Head(items)))

\* useMemo of total
TotalOf(items) ==
    TotalOver(items, 0)

(***************************************************************************)
(* BatchCart under a parent that appends any item and removes any item.    *)
(***************************************************************************)
MaxItems ==
    3

CartNames ==
    { <<"A">>, <<"A", "-", "1">> }

CartPhones ==
    { None, Some(<<"1", "-">>) }

CartPrices ==
    { None, Some(150), Some(250) }

\* an id no item of the batch has
FreshId(items) ==
    CHOOSE n \in 1..(Len(items) + 1) :
        \A i \in DOMAIN items : items[i].id # n

CartInit ==
    /\ PricingIdle
    /\ BatchIdle
    /\ OrderIdle
    /\ PagesIdle

\* the parent appends an item; BatchCart renders
CartAppendItem ==
    /\ Len(jerseys) < MaxItems
    /\ \E n \in CartNames, ph \in CartPhones, pr \in CartPrices :
          jerseys' = Append(jerseys, [id |-> FreshId(jerseys),
                                      customerName |-> n,
                                      customerPhone |-> ph,
                                      price |-> pr])
    /\ groupedItems' = GroupedItemsOf(jerseys')
    /\ total' = TotalOf(jerseys')
    /\ UNCHANGED <<pricingVars, historyVars, orderVars, pagesVars>>

\* prev.filter((j) => j.id !== id)
FilterOutId(items, id) ==
    LET keep == { i \in DOMAIN items : items[i].id # id }
        nth(k) == CHOOSE i \in keep : Cardinality({ j \in keep : j < i }) = k - 1
    IN  [k \in 1..Cardinality(keep) |-> items[nth(k)]]

\* onRemoveItem(id); BatchCart renders
CartRemoveItem ==
    /\ \E i \in DOMAIN jerseys :
          jerseys' = FilterOutId(jerseys, jerseys[i].id)
    /\ groupedItems' = GroupedItemsOf(jerseys')
    /\ total' = TotalOf(jerseys')
    /\ UNCHANGED <<pricingVars, historyVars, orderVars, pagesVars>>

CartNext ==
    \/ CartAppendItem
    \/ CartRemoveItem

CartSpec ==
    CartInit /\ [][CartNext]_vars

(***************************************************************************)
(* C14. The batch total is the sum of the price fields of the items of the *)
(* batch, a missing price counting as 0; the total of an empty batch is 0. *)
(***************************************************************************)
PriceOrZero(item) ==
    IF item.price = None THEN 0 ELSE item.price[1]

RECURSIVE SumOfPrices(_)
SumOfPrices(items) ==
    IF Len(items) = 0 THEN 0
    ELSE SumOfPrices(SubSeq(items, 1, Len(items) - 1))
            + PriceOrZero(items[Len(items)])

C14_TotalIsSum ==
    /\ total = SumOfPrices(jerseys)
    /\ jerseys = << >> => total = 0

C14_Witness ==
    /\ Len(jerseys) = 3
    /\ jerseys[1].price = Some(150)
    /\ jerseys[2].price = None
    /\ jerseys[3].price = Some(250)
    /\ total = 400

(***************************************************************************)
(* C15. The groups partition the batch by customer: every item is in       *)
(* exactly one group; two items are in one group exactly when they have    *)
(* the same customer name and phone; there are as many groups as distinct  *)
(* customers; the groups come in the order their customers first appear in *)
(* the batch; the items of a group keep their batch order.                 *)
(***************************************************************************)
\* name and phone, a missing phone being the empty one
CustomerIdentity(item) ==
    <<item.customerName,
      IF item.customerPhone = None THEN << >> ELSE item.customerPhone[1]>>

\* where the items of the batch are in the groups: <<group, place>>
PlacesOf(item) ==
    { gk \in { <<g, k>> : g \in DOMAIN groupedItems, k \in 1..MaxItems + 1 } :
        /\ gk[2] \in DOMAIN groupedItems[gk[1]].items
        /\ groupedItems[gk[1]].items[gk[2]] = item }

PlaceOf(item) ==
    CHOOSE gk \in PlacesOf(item) : TRUE

C15_GroupsPartitionByCustomer ==
    /\ \A i \in DOMAIN jerseys : Cardinality(PlacesOf(jerseys[i])) = 1
    /\ \A g \in DOMAIN groupedItems :
          \A k \in DOMAIN groupedItems[g].items :
             \E i \in DOMAIN jerseys : jerseys[i] = groupedItems[g].items[k]
    /\ \A i, j \in DOMAIN jerseys :
          (PlaceOf(jerseys[i])[1] = PlaceOf(jerseys[j])[1])
             <=> (CustomerIdentity(jerseys[i]) = CustomerIdentity(jerseys[j]))
    /\ Len(groupedItems)
          = Cardinality({ CustomerIdentity(jerseys[i]) : i \in DOMAIN jerseys })
    /\ \A i, j \in DOMAIN jerseys :
          i < j =>
            LET pi == PlaceOf(jerseys[i])
                pj == PlaceOf(jerseys[j])
            IN  /\ pi[1] = pj[1] => pi[2] < pj[2]
                /\ pj[1] < pi[1] =>
                      \E h \in 1..(i - 1) : PlaceOf(jerseys[h])[1] = pj[1]

(***************************************************************************)
(* The backend: enum order_status, tables user_roles, customers and        *)
(* orders, the row-level policies on orders, and the requests the pages    *)
(* send.  A request runs as auth.uid(), the user the auth backend holds.   *)
(***************************************************************************)
order_status ==
    {"pending", "in_production", "shipped", "completed"}

user_roles ==
    {[user_id |-> "admin1", role |-> "admin"],
     [user_id |-> "r1", role |-> "user"],
     [user_id |-> "r2", role |-> "user"]}

has_role(_user_id, _role) ==
    \E r \in user_roles : r.user_id = _user_id /\ r.role = _role

\* the elements of an array or the rows of a table
Range(seq) ==
    {seq[i] : i \in DOMAIN seq}

\* policy "Admins can update orders"
AdminsCanUpdateOrders(uid, row) ==
    uid # None /\ has_role(uid[1], "admin")

\* policy "Resellers can delete their own pending orders"
ResellersCanDeleteTheirOwnPendingOrders(uid, customers, row) ==
    /\ uid # None
    /\ \/ /\ \E c \in Range(customers) :
                c.id = row.customer_id /\ c.reseller_id = uid
          /\ row.status = "pending"
       \/ has_role(uid[1], "admin")

\* policy "Resellers can delete their own customers"
ResellersCanDeleteTheirOwnCustomers(uid, row) ==
    uid # None /\ row.reseller_id = uid

\* policy "Resellers can view their own orders"
ResellersCanViewTheirOwnOrders(uid, customers, row) ==
    /\ uid # None
    /\ \E c \in Range(customers) :
          /\ c.id = row.customer_id
          /\ (c.reseller_id = uid \/ has_role(uid[1], "admin"))

\* .from("orders").update({ status }).in("id", ids)
OrdersUpdateStatus(orders, uid, ids, newStatus) ==
    [i \in DOMAIN orders |->
        IF orders[i].id \in ids /\ AdminsCanUpdateOrders(uid, orders[i])
        THEN [orders[i] EXCEPT !.status = newStatus]
        ELSE orders[i]]

\* .from("orders").update({ price }).eq("id", orderId)
OrdersUpdatePrice(orders, uid, orderId, newPrice) ==
    [i \in DOMAIN orders |->
        IF orders[i].id = orderId /\ AdminsCanUpdateOrders(uid, orders[i])
        THEN [orders[i] EXCEPT !.price = Some(newPrice)]
        ELSE orders[i]]

\* the rows .from("orders").delete().eq("id", orderId) removes
OrdersDeleted(orders, customers, uid, orderId) ==
    SelectSeq(orders, LAMBDA row :
        /\ row.id = orderId
        /\ ResellersCanDeleteTheirOwnPendingOrders(uid, customers, row))

\* .order("created_at", { ascending: false }): rows are kept as inserted
Descending(rows) ==
    [i \in 1..Len(rows) |-> rows[Len(rows) + 1 - i]]

CustomerOf(customers, customer_id) ==
    CHOOSE c \in Range(customers) : c.id = customer_id

\* the row handleSubmitOrder inserts for one item of the batch
OrderRow(id, customer_id, item) ==
    [id |-> id,
     customer_id |-> customer_id,
     product_type |-> item.product,
     item_type |-> item.itemType,
     size |-> item.size,
     status |-> "pending",
     price |-> item.price]

(***************************************************************************)
(* The Admin page (pages/Admin.tsx): state orders, what it computes from   *)
(* it, and its handlers.  Transactions and design files are left out.      *)
(***************************************************************************)
STATUS_OPTIONS ==
    <<"pending", "in_production", "shipped", "completed">>

\* what the page shows: nothing while the hook loads, without a user or
\* without the admin role
AdminRenders ==
    ~(authLoading \/ user = None \/ ~isAdmin)

\* the rows fetchOrders selects: no column price, customers joined
AdminSelect(customers, orders) ==
    Descending([i \in DOMAIN orders |->
        [id |-> orders[i].id,
         product_type |-> orders[i].product_type,
         item_type |-> orders[i].item_type,
         size |-> orders[i].size,
         status |-> orders[i].status,
         price |-> None,
         customers |->
            [team_name |-> CustomerOf(customers, orders[i].customer_id).team_name]]])

\* order.customers?.team_name || "Unknown"
OrUnknown(name) ==
    IF name = << >> THEN <<"U", "n", "k", "n", "o", "w", "n">> ELSE name

\* order.item_type || "Set"
OrSet(item_type) ==
    IF item_type = "" THEN "Set" ELSE item_type

\* price || fallback: a missing price and the price 0 are falsy
PriceOr(price, fallback) ==
    IF price = None \/ price = Some(0) THEN fallback ELSE price[1]

\* order.price || calculatePrice(product_type, item_type || "Set", size)
AdminItemPrice(order) ==
    PriceOr(order.price,
            calculatePrice(order.product_type, OrSet(order.item_type), order.size))

\* the index of the entry of the map for a name, 0 when it has none
BatchIndex(batches, name) ==
    IF \E i \in DOMAIN batches : batches[i].customerName = name
    THEN CHOOSE i \in DOMAIN batches : batches[i].customerName = name
    ELSE 0

\* the body of orders.forEach in pendingBatches
PendingBatchesForEach(batches, order) ==
    LET name == OrUnknown(order.customers.team_name)
        map == IF BatchIndex(batches, name) = 0
               THEN Append(batches, [customerName |-> name,
                                     orders |-> << >>,
                                     pendingCount |-> 0,
                                     totalBill |-> 0])
               ELSE batches
        at == BatchIndex(map, name)
    IN  [map EXCEPT ![at] =
            [@ EXCEPT !.orders = Append(@, order),
                      !.totalBill = @ + AdminItemPrice(order),
                      !.pendingCount =
                          IF order.status = "pending" THEN @ + 1 ELSE @]]

RECURSIVE PendingBatchesOver(_, _)
PendingBatchesOver(orders, n) ==
    IF n = 0
    THEN << >>
    ELSE PendingBatchesForEach(PendingBatchesOver(orders, n - 1), orders[n])

\* one batch put into an array sorted by pendingCount, largest first,
\* behind the batches of the same pendingCount
InsertByPendingCount(sorted, batch) ==
    LET before == SelectSeq(sorted, LAMBDA b : b.pendingCount >= batch.pendingCount)
        after == SelectSeq(sorted, LAMBDA b : b.pendingCount < batch.pendingCount)
    IN  before \o <<batch>> \o after

RECURSIVE SortByPendingCount(_, _)
SortByPendingCount(batches, n) ==
    IF n = 0
    THEN << >>
    ELSE InsertByPendingCount(SortByPendingCount(batches, n - 1), batches[n])

pendingBatches(orders) ==
    LET all == PendingBatchesOver(orders, Len(orders))
        pending == SelectSeq(all, LAMBDA b : b.pendingCount > 0)
    IN  SortByPendingCount(pending, Len(pending))

RECURSIVE TotalRevOver(_, _)
TotalRevOver(orders, n) ==
    IF n = 0
    THEN 0
    ELSE TotalRevOver(orders, n - 1) + AdminItemPrice(orders[n])

stats(orders) ==
    [total |-> Len(orders),
     pending |-> Len(SelectSeq(orders, LAMBDA o : o.status = "pending")),
     inProduction |-> Len(SelectSeq(orders, LAMBDA o : o.status = "in_production")),
     completed |-> Len(SelectSeq(orders, LAMBDA o : o.status = "completed")),
     revenue |-> TotalRevOver(orders, Len(orders))]

PendingIds_AllOfThem(someOrders) ==
    {o.id : o \in Range(someOrders)}

\* the ids of the pending orders among some orders
PendingIds(someOrders) ==
    {o.id : o \in {p \in Range(someOrders) : p.status = "pending"}}

\* setOrders(prev => prev.map(...)) of the status handlers
MapStatus(prev, ids, newStatus) ==
    [i \in DOMAIN prev |->
        IF prev[i].id \in ids
        THEN [prev[i] EXCEPT !.status = newStatus]
        ELSE prev[i]]

\* setOrders(prev => prev.map(...)) of updateOrderPrice
MapPrice(prev, orderId, newPrice) ==
    [i \in DOMAIN prev |->
        IF prev[i].id = orderId
        THEN [prev[i] EXCEPT !.price = Some(newPrice)]
        ELSE prev[i]]

(***************************************************************************)
(* AdminSpec: an admin is signed in and works on the Admin page while      *)
(* orders come in.                                                         *)
(***************************************************************************)
MaxOrders == 2

\* customers that earlier submissions created, one of each reseller
SeedCustomers ==
    <<[id |-> 1, team_name |-> <<"A">>, fb_link |-> << >>,
       contact_phone |-> << >>, reseller_id |-> Some("r1")],
      [id |-> 2, team_name |-> <<"B">>, fb_link |-> << >>,
       contact_phone |-> << >>, reseller_id |-> Some("r2")]>>

\* the first id gen_random_uuid() hands out after the seed
FirstFreeId ==
    Len(SeedCustomers) + 1

\* an item as it was added to a batch; a legacy item has no price
SubmittedItems ==
    {[product |-> BasketballJersey, itemType |-> "Set", size |-> Size_M,
      price |-> p] :
        p \in {None, Some(calculatePrice(BasketballJersey, "Set", Size_M))}}

\* what the admin types into the price field
PriceInputs == {0, 150}

\* the hook has found the signed-in user to be an admin
AdminSignedIn ==
    /\ authSession = Some("admin1")
    /\ user = Some("admin1")
    /\ isAdmin = TRUE
    /\ authLoading = FALSE
    /\ location = "/admin"
    /\ sessionRequest = FALSE
    /\ lookups = {}
    /\ roleChecked = Some("admin1")
    /\ AccountsIdle

AdminInit ==
    /\ PricingIdle
    /\ BatchIdle
    /\ OrderIdle
    /\ ResellerIdle
    /\ AdminSignedIn
    /\ dbCustomers = SeedCustomers
    /\ dbOrders = << >>
    /\ nextId = FirstFreeId
    /\ adminOrders = << >>

\* a submission of the order page inserts the row of one item
OrderSubmitted ==
    /\ nextId < FirstFreeId + MaxOrders
    /\ \E c \in Range(dbCustomers), item \in SubmittedItems :
          dbOrders' = Append(dbOrders, OrderRow(nextId, c.id, item))
    /\ nextId' = nextId + 1
    /\ UNCHANGED <<pricingVars, historyVars, batchVars, orderVars>>
    /\ UNCHANGED <<dbCustomers, authVars, adminVars, resellerVars>>

\* useEffect of the page and fetchOrders
FetchOrders ==
    /\ user # None /\ isAdmin
    /\ \E error \in BOOLEAN :
          IF error
          THEN UNCHANGED adminOrders
          ELSE adminOrders' =
                  AdminSelect(dbCustomers,
                      SelectSeq(dbOrders, LAMBDA row :
                          ResellersCanViewTheirOwnOrders(authSession, dbCustomers, row)))
    /\ UNCHANGED <<pricingVars, historyVars, batchVars, orderVars>>
    /\ UNCHANGED <<backendVars, authVars, resellerVars>>

UpdateOrderPrice ==
    /\ AdminRenders
    /\ \E order \in Range(adminOrders), newPrice \in PriceInputs, error \in BOOLEAN :
          IF error
          THEN UNCHANGED <<dbOrders, adminOrders>>
          ELSE /\ dbOrders' = OrdersUpdatePrice(dbOrders, authSession, order.id, newPrice)
               /\ adminOrders' = MapPrice(adminOrders, order.id, newPrice)
    /\ UNCHANGED <<pricingVars, historyVars, batchVars, orderVars>>
    /\ UNCHANGED <<dbCustomers, nextId, authVars, resellerVars>>

UpdateOrderStatus ==
    /\ AdminRenders
    /\ \E order \in Range(adminOrders), newStatus \in Range(STATUS_OPTIONS),
          error \in BOOLEAN :
          IF error
          THEN UNCHANGED <<dbOrders, adminOrders>>
          ELSE /\ dbOrders' = OrdersUpdateStatus(dbOrders, authSession, {order.id}, newStatus)
               /\ adminOrders' = MapStatus(adminOrders, {order.id}, newStatus)
    /\ UNCHANGED <<pricingVars, historyVars, batchVars, orderVars>>
    /\ UNCHANGED <<dbCustomers, nextId, authVars, resellerVars>>

ConfirmIds_LocalListFirst(pendingIds) ==
    IF pendingIds = {}
    THEN UNCHANGED <<dbOrders, adminOrders>>
    ELSE \E error \in BOOLEAN :
            /\ adminOrders' = MapStatus(adminOrders, pendingIds, "in_production")
            /\ IF error
               THEN UNCHANGED dbOrders
               ELSE dbOrders' = OrdersUpdateStatus(dbOrders, authSession, pendingIds, "in_production")

\* the body of confirmBatch and of confirmAllPending once the ids are known
ConfirmIds(pendingIds) ==
    IF pendingIds = {}
    THEN UNCHANGED <<dbOrders, adminOrders>>
    ELSE \E error \in BOOLEAN :
            IF error
            THEN UNCHANGED <<dbOrders, adminOrders>>
            ELSE /\ dbOrders' = OrdersUpdateStatus(dbOrders, authSession, pendingIds, "in_production")
                 /\ adminOrders' = MapStatus(adminOrders, pendingIds, "in_production")

\* confirmBatch(batchOrders) with the orders of one customer name as
\* pendingBatches groups them; the page offers the button on the cards of
\* the groups that have a pending order, the handler takes any of them
ConfirmBatch ==
    /\ AdminRenders
    /\ \E batch \in Range(PendingBatchesOver(adminOrders, Len(adminOrders))) :
          ConfirmIds(PendingIds(batch.orders))
    /\ UNCHANGED <<pricingVars, historyVars, batchVars, orderVars>>
    /\ UNCHANGED <<dbCustomers, nextId, authVars, resellerVars>>

ConfirmAllPending ==
    /\ AdminRenders
    /\ ConfirmIds(PendingIds(adminOrders))
    /\ UNCHANGED <<pricingVars, historyVars, batchVars, orderVars>>
    /\ UNCHANGED <<dbCustomers, nextId, authVars, resellerVars>>

AdminNext ==
    \/ OrderSubmitted
    \/ FetchOrders
    \/ UpdateOrderPrice
    \/ UpdateOrderStatus
    \/ ConfirmBatch
    \/ ConfirmAllPending

AdminSpec ==
    AdminInit /\ [][AdminNext]_vars

(***************************************************************************)
(* The Reseller page: states customers and orders, what it computes from   *)
(* them, and its handlers.  Its state user is the signed-in user.          *)
(* Transactions and design files are left out.                             *)
(***************************************************************************)
\* .from("customers").select(...).eq("reseller_id", user.id); the order by
\* team_name is the order of the table here
ResellerCustomersSelect(customers, uid) ==
    SelectSeq(customers, LAMBDA c : uid # None /\ c.reseller_id = uid)

\* .from("orders").select(..., price, customers!inner(...))
\*     .eq("customers.reseller_id", user.id)
ResellerSelect(customers, orders, uid) ==
    LET own == SelectSeq(orders, LAMBDA row :
                   /\ ResellersCanViewTheirOwnOrders(uid, customers, row)
                   /\ CustomerOf(customers, row.customer_id).reseller_id = uid)
    IN  Descending([i \in DOMAIN own |->
            [id |-> own[i].id,
             product_type |-> own[i].product_type,
             item_type |-> own[i].item_type,
             size |-> own[i].size,
             status |-> own[i].status,
             price |-> own[i].price,
             customers |->
                [id |-> own[i].customer_id,
                 team_name |-> CustomerOf(customers, own[i].customer_id).team_name,
                 reseller_id |-> CustomerOf(customers, own[i].customer_id).reseller_id]]])

\* o.price || calculatePrice(o.product_type, o.item_type, o.size)
ResellerItemPrice(o) ==
    PriceOr(o.price, calculatePrice(o.product_type, o.item_type, o.size))

RECURSIVE ResellerTotalBillOver(_, _)
ResellerTotalBillOver(orders, n) ==
    IF n = 0
    THEN 0
    ELSE ResellerTotalBillOver(orders, n - 1) + ResellerItemPrice(orders[n])

\* totalBill of the page
totalBill(orders) ==
    ResellerTotalBillOver(orders, Len(orders))

\* customerStats: one entry for every customer of state customers, fed by
\* the orders whose customer has an entry
customerStats(customers, orders) ==
    [id \in {c.id : c \in Range(customers)} |->
        LET mine == SelectSeq(orders, LAMBDA o : o.customers.id = id)
        IN  [totalItems |-> Len(mine),
             totalBill |-> ResellerTotalBillOver(mine, Len(mine))]]

(***************************************************************************)
(* C16: stored prices in the totals.                                       *)
(***************************************************************************)
\* the amount of a row: its stored price when it has one, 0 included, and
\* the recomputed price only when it has none
StoredOrRecomputed(o) ==
    IF o.price # None
    THEN o.price[1]
    ELSE calculatePrice(o.product_type, o.item_type, o.size)

RECURSIVE SumStoredOrRecomputed(_, _)
SumStoredOrRecomputed(rows, n) ==
    IF n = 0
    THEN 0
    ELSE SumStoredOrRecomputed(rows, n - 1) + StoredOrRecomputed(rows[n])

\* C16: whenever an order row has a stored price, every total (admin
\* revenue, admin pending-batch bill, reseller total bill, per-customer
\* bill) uses that stored price, a stored price of 0 included, and
\* calculatePrice is used only for the rows without a stored price
C16_TotalsUseStoredPrice ==
    /\ stats(adminOrders).revenue
          = SumStoredOrRecomputed(adminOrders, Len(adminOrders))
    /\ \A batch \in Range(pendingBatches(adminOrders)) :
          batch.totalBill = SumStoredOrRecomputed(batch.orders, Len(batch.orders))
    /\ totalBill(resellerOrders)
          = SumStoredOrRecomputed(resellerOrders, Len(resellerOrders))
    /\ \A c \in Range(resellerCustomers) :
          LET mine == SelectSeq(resellerOrders, LAMBDA o : o.customers.id = c.id)
          IN  customerStats(resellerCustomers, resellerOrders)[c.id].totalBill
                 = SumStoredOrRecomputed(mine, Len(mine))

(***************************************************************************)
(* C18: the status pipeline.                                               *)
(***************************************************************************)
\* the place of a status in pending, in_production, shipped, completed
Stage(status) ==
    CASE status = "pending" -> 1
      [] status = "in_production" -> 2
      [] status = "shipped" -> 3
      [] status = "completed" -> 4
      [] OTHER -> 0

RowIds(rows) ==
    {rows[i].id : i \in DOMAIN rows}

RowOf(rows, id) ==
    CHOOSE row \in Range(rows) : row.id = id

\* every row of table orders has one of the four statuses
StatusesAreStages ==
    \A row \in Range(dbOrders) : Stage(row.status) \in 1..4

\* a step creates rows as pending and leaves every row at its stage or
\* moves it to the next one
PipelineStep ==
    /\ \A id \in RowIds(dbOrders') \ RowIds(dbOrders) :
          RowOf(dbOrders', id).status = "pending"
    /\ \A id \in RowIds(dbOrders') \cap RowIds(dbOrders) :
          Stage(RowOf(dbOrders', id).status)
             \in {Stage(RowOf(dbOrders, id).status),
                  Stage(RowOf(dbOrders, id).status) + 1}

\* C18: each order's status follows the pipeline pending, in_production,
\* shipped, completed: every order is created as pending, its status is
\* always one of the four values, and no updateOrderStatus, confirmBatch
\* or confirmAllPending moves an order to an earlier stage or past the
\* next stage
C18_StatusPipeline ==
    []StatusesAreStages /\ [][PipelineStep]_vars

(***************************************************************************)
(* The order page: OrderForm (handleSubmit, handleBulkAdd) hands items to  *)
(* OrderPage (handleAddJersey, handleAddJerseys), which keeps the batch    *)
(* and submits it (handleSubmitOrder).  Fields playerNameFront, style and  *)
(* the design file are left out.                                           *)
(***************************************************************************)
Trim(str) ==
    TrimEnd(TrimStart(str))

WhiteSpace == {" "}

\* [,\s]
Separators == {",", " "}

\* \d
Digits == {"0", "1", "2", "3", "4", "5", "6", "7", "8", "9"}

\* the length of the longest prefix of str made of chars
PrefixRun(str, chars) ==
    CHOOSE n \in 0..Len(str) :
        /\ \A i \in 1..n : str[i] \in chars
        /\ n = Len(str) \/ str[n + 1] \notin chars

\* str.slice(from): the characters behind the first from ones
SliceFrom(str, from) ==
    SubSeq(str, from + 1, Len(str))

\* str.slice(0, to)
SliceTo(str, to) ==
    SubSeq(str, 1, IF to < Len(str) THEN to ELSE Len(str))

\* bulkText.split("\n")
RECURSIVE Split(_)
Split(text) ==
    IF \E i \in DOMAIN text : text[i] = "\n"
    THEN LET at == CHOOSE i \in DOMAIN text :
                       text[i] = "\n" /\ \A j \in 1..(i - 1) : text[j] # "\n"
         IN  <<SubSeq(text, 1, at - 1)>> \o Split(SliceFrom(text, at))
    ELSE <<text>>

\* what [,\s]+(\d+)(?:\s*-\s*(.+))?$ captures in the rest of a line behind
\* the name, None when the rest does not match: the separators and the
\* digits are the longest runs, and (.+) keeps at least one character
MatchRest(rest) ==
    LET digitsOn == SliceFrom(rest, PrefixRun(rest, Separators))
        number == SubSeq(digitsOn, 1, PrefixRun(digitsOn, Digits))
        tail == SliceFrom(digitsOn, Len(number))
        dashOn == SliceFrom(tail, PrefixRun(tail, WhiteSpace))
        sizeOn == SliceFrom(dashOn, 1)
        spaces == PrefixRun(sizeOn, WhiteSpace)
    IN  IF PrefixRun(rest, Separators) = 0 \/ number = << >>
        THEN None
        ELSE IF tail = << >>
        THEN Some([number |-> number, size |-> None])
        ELSE IF dashOn # << >> /\ Head(dashOn) = "-" /\ sizeOn # << >>
        THEN Some([number |-> number,
                   size |-> Some(SliceFrom(sizeOn,
                                    IF spaces = Len(sizeOn)
                                    THEN spaces - 1
                                    ELSE spaces))])
        ELSE None

\* trimmedLine.match(/^(.+?)[,\s]+(\d+)(?:\s*-\s*(.+))?$/): the shortest
\* name behind which the rest matches
Match(trimmedLine) ==
    LET ends == {k \in 1..Len(trimmedLine) :
                    MatchRest(SliceFrom(trimmedLine, k)) # None}
    IN  IF ends = {}
        THEN None
        ELSE LET k == CHOOSE e \in ends : \A f \in ends : e <= f
                 rest == MatchRest(SliceFrom(trimmedLine, k))[1]
             IN  Some([name |-> SubSeq(trimmedLine, 1, k),
                       number |-> rest.number,
                       size |-> rest.size])

\* the item priced for the size the form starts with
FormItem_DefaultSize(name, number, sz, prod, type) ==
    [playerNameBack |-> name,
     jerseyNumber |-> number,
     size |-> sz,
     product |-> prod,
     itemType |-> type,
     price |-> Some(calculatePrice(prod, type, <<"M">>))]

\* the item handleSubmit hands to onAddJersey
FormItem(name, number, sz, prod, type) ==
    [playerNameBack |-> name,
     jerseyNumber |-> number,
     size |-> sz,
     product |-> prod,
     itemType |-> type,
     price |-> Some(calculatePrice(prod, type, sz))]

\* the body of lines.forEach in handleBulkAdd: the items a line adds
BulkLineItems(line, sz, prod, type) ==
    LET trimmedLine == Trim(line)
        match == Match(trimmedLine)
    IN  IF trimmedLine = << >> \/ match = None
        THEN << >>
        ELSE LET name == Trim(match[1].name)
                 number == SliceTo(Trim(match[1].number), 2)
                 lineSize == IF match[1].size # None
                             THEN toUpperCase(Trim(match[1].size[1]))
                             ELSE sz
             IN  IF name # << >> /\ number # << >>
                 THEN <<FormItem(name, number, lineSize, prod, type)>>
                 ELSE << >>

RECURSIVE BulkItemsOver(_, _, _, _, _)
BulkItemsOver(lines, n, sz, prod, type) ==
    IF n = 0
    THEN << >>
    ELSE BulkItemsOver(lines, n - 1, sz, prod, type)
            \o BulkLineItems(lines[n], sz, prod, type)

\* newItems of handleBulkAdd
BulkItems(text, sz, prod, type) ==
    BulkItemsOver(Split(text), Len(Split(text)), sz, prod, type)

\* str.trim() || undefined
TrimOrUndefined(str) ==
    IF Trim(str) = << >> THEN None ELSE Some(Trim(str))

\* newJersey of handleAddJersey: the item with its id and the customer
\* fields of the page as they are now
NewJersey(jersey, id) ==
    [id |-> id,
     customerId |-> currentCustomerId,
     customerName |-> Trim(customerName),
     customerFb |-> TrimOrUndefined(fbLink),
     customerPhone |-> TrimOrUndefined(phone),
     playerNameBack |-> jersey.playerNameBack,
     jerseyNumber |-> jersey.jerseyNumber,
     size |-> jersey.size,
     product |-> jersey.product,
     itemType |-> jersey.itemType,
     price |-> jersey.price]

\* [...prev, ...processedJerseys], every new item with a fresh uuid
RECURSIVE AppendJerseys(_, _, _)
AppendJerseys(prev, newJerseys, n) ==
    IF n = 0
    THEN prev
    ELSE LET before == AppendJerseys(prev, newJerseys, n - 1)
         IN  Append(before, NewJersey(newJerseys[n], FreshId(before)))

\* `${x}` of an optional string
TemplateOf(x) ==
    IF x = None THEN <<"u", "n", "d", "e", "f", "i", "n", "e", "d">> ELSE x[1]

\* j.customerId || `${j.customerName}-${j.customerFb}-${j.customerPhone}`
BatchKey(j) ==
    IF j.customerId # None
    THEN [customerId |-> j.customerId[1]]
    ELSE [text |-> j.customerName \o <<"-">> \o TemplateOf(j.customerFb)
                      \o <<"-">> \o TemplateOf(j.customerPhone)]

KeyIndex(batches, key) ==
    IF \E i \in DOMAIN batches : batches[i].key = key
    THEN CHOOSE i \in DOMAIN batches : batches[i].key = key
    ELSE 0

\* the body of jerseys.forEach in handleSubmitOrder
CustomerBatchesForEach(batches, j) ==
    LET map == IF KeyIndex(batches, BatchKey(j)) = 0
               THEN Append(batches, [key |-> BatchKey(j),
                                     id |-> j.customerId,
                                     name |-> j.customerName,
                                     fb |-> OrEmptyString(j.customerFb),
                                     phone |-> OrEmptyString(j.customerPhone),
                                     items |-> << >>])
               ELSE batches
    IN  [map EXCEPT ![KeyIndex(map, BatchKey(j))].items = Append(@, j)]

RECURSIVE CustomerBatchesOver(_, _)
CustomerBatchesOver(items, n) ==
    IF n = 0
    THEN << >>
    ELSE CustomerBatchesForEach(CustomerBatchesOver(items, n - 1), items[n])

customerBatches(items) ==
    CustomerBatchesOver(items, Len(items))

\* policy "Resellers can view their own customers"
ResellersCanViewTheirOwnCustomers(uid, row) ==
    uid # None /\ (row.reseller_id = uid \/ has_role(uid[1], "admin"))

\* the rows .from("customers").select("id").eq("team_name", name)
\*     .eq("reseller_id", user?.id) can return
ExistingCustomers(customers, uid, name) ==
    {c \in Range(customers) :
        /\ ResellersCanViewTheirOwnCustomers(uid, c)
        /\ c.team_name = name
        /\ c.reseller_id = uid}

\* the row .from("customers").insert({...}) adds
CustomerRow(id, customerData, uid) ==
    [id |-> id,
     team_name |-> customerData.name,
     fb_link |-> customerData.fb,
     contact_phone |-> customerData.phone,
     reseller_id |-> uid]

\* the rows .from("orders").insert(orders) adds, with their ids
RECURSIVE OrderRowsOver(_, _, _, _)
OrderRowsOver(items, n, customerId, firstId) ==
    IF n = 0
    THEN << >>
    ELSE Append(OrderRowsOver(items, n - 1, customerId, firstId),
                OrderRow(firstId + n - 1, customerId, items[n]))

\* .limit(1).maybeSingle(): the first of the rows found, in table order
FirstId(customers, found) ==
    customers[CHOOSE i \in DOMAIN customers :
                 /\ customers[i] \in found
                 /\ \A j \in 1..(i - 1) : customers[j] \notin found].id

\* one round of the loop of handleSubmitOrder on the tables as the rounds
\* before left them: the customer is looked up or inserted, the orders are
\* inserted; a failed insert ends the submission, a failed lookup finds
\* nobody
SubmitRound(tables, customerData, uid, lookupFails, error) ==
    LET found == ExistingCustomers(tables.customers, uid, customerData.name)
        known == IF customerData.id # None
                 THEN customerData.id
                 ELSE IF found = {} \/ lookupFails
                 THEN None
                 ELSE Some(FirstId(tables.customers, found))
        customerId == IF known = None THEN tables.nextId ELSE known[1]
        orderId == IF known = None THEN tables.nextId + 1 ELSE tables.nextId
        customers == IF known = None
                     THEN Append(tables.customers,
                              CustomerRow(tables.nextId, customerData, uid))
                     ELSE tables.customers
    IN  IF tables.failed
        THEN tables
        ELSE IF known = None /\ error = "customerError"
        THEN [tables EXCEPT !.failed = TRUE]
        ELSE IF error = "ordersError"
        THEN [customers |-> customers,
              orders |-> tables.orders,
              nextId |-> orderId,
              failed |-> TRUE]
        ELSE [customers |-> customers,
              orders |-> tables.orders \o
                  OrderRowsOver(customerData.items, Len(customerData.items),
                                customerId, orderId),
              nextId |-> orderId + Len(customerData.items),
              failed |-> FALSE]

RECURSIVE SubmitRounds(_, _, _, _, _, _)
SubmitRounds(tables, batches, n, uid, lookupFails, errors) ==
    IF n = 0
    THEN tables
    ELSE SubmitRound(SubmitRounds(tables, batches, n - 1, uid, lookupFails, errors),
                     batches[n], uid, lookupFails[n], errors[n])

(***************************************************************************)
(* OrderSpec: a reseller fills the form for a customer, builds a batch and *)
(* submits it.  What is typed into a field of the form is the input of the *)
(* handler that reads it.                                                  *)
(***************************************************************************)
PRODUCTS ==
    << <<"B", "a", "s", "k", "e", "t", "b", "a", "l", "l", " ", "J", "e", "r", "s", "e", "y">>,
       <<"V", "o", "l", "l", "e", "y", "b", "a", "l", "l", " ", "J", "e", "r", "s", "e", "y">>,
       <<"E", "s", "p", "o", "r", "t", "s", " ", "J", "e", "r", "s", "e", "y">>,
       <<"T", "s", "h", "i", "r", "t">>,
       <<"S", "h", "o", "r", "t", "s">>,
       <<"H", "o", "o", "d", "i", "e">>,
       <<"L", "o", "n", "g", "s", "l", "e", "e", "v", "e", "s">>,
       <<"P", "o", "l", "o", " ", "S", "h", "i", "r", "t">>,
       <<"P", "a", "n", "t", "s">> >>

\* the products, coverages and sizes the visitor picks here
ProductChoices == {PRODUCTS[1], PRODUCTS[6]}

ItemTypeChoices == {"Set", "Upper"}

SizeChoices == {<<"6">>}

\* what the visitor types into playerNameBack and jerseyNumber
PlayerInputs ==
    {[name |-> <<"A", "l">>, number |-> <<"7">>],
     [name |-> <<" ">>, number |-> <<"7">>]}

\* what the visitor types into bulkText
BulkTextInputs ==
    {<<"A", "l", ",", " ", "7", " ", "-", " ", "x", "l", "\n",
       "x", "\n",
       "B", "o", " ", "1", "2", "3">>,
     <<" ", "\n">>}

\* the customer rows attempts may have created before one more is made
MaxNewCustomers ==
    1

\* what a request of a submission can fail with
SubmitErrors == {"none", "customerError", "ordersError"}

\* text.trim() is empty
IsBlank(text) ==
    \A i \in DOMAIN text : text[i] \in WhiteSpace \cup {"\n"}

\* the page opens for reseller r1 with a customer of theirs prefilled
\* (initialCustomerData)
OrderInit ==
    /\ result = NoResult /\ priceResult = None /\ pc = "idle"
    /\ ncalls = 0 /\ earlier = NoCall
    /\ BatchIdle
    /\ HookIdle
    /\ AccountsIdle
    /\ AdminIdle
    /\ ResellerIdle
    /\ product = PRODUCTS[1]
    /\ itemType = "Set"
    /\ size = <<"M">>
    /\ showConfirmation = FALSE
    /\ dbCustomers = SeedCustomers
    /\ dbOrders = << >>
    /\ nextId = FirstFreeId
    /\ authSession = Some("r1")
    /\ currentCustomerId = Some(SeedCustomers[1].id)
    /\ customerName = SeedCustomers[1].team_name
    /\ fbLink = SeedCustomers[1].fb_link
    /\ phone = SeedCustomers[1].contact_phone

\* what the order page leaves alone
OrderRest ==
    <<result, priceResult, pc, historyVars, authVars, adminVars, resellerVars>>

SelectProduct ==
    /\ ~showConfirmation
    /\ \E p \in ProductChoices : product' = p
    /\ UNCHANGED <<itemType, size>>
    /\ UNCHANGED orderVars
    /\ UNCHANGED <<batchVars, backendVars, OrderRest>>

SelectItemType ==
    /\ ~showConfirmation
    /\ \E t \in ItemTypeChoices : itemType' = t
    /\ UNCHANGED <<product, size>>
    /\ UNCHANGED orderVars
    /\ UNCHANGED <<batchVars, backendVars, OrderRest>>

SelectSize ==
    /\ ~showConfirmation
    /\ \E s \in SizeChoices : size' = s
    /\ UNCHANGED <<product, itemType>>
    /\ UNCHANGED orderVars
    /\ UNCHANGED <<batchVars, backendVars, OrderRest>>

\* OrderForm.handleSubmit, which calls handleAddJersey of the page
HandleSubmit ==
    /\ ~showConfirmation
    /\ Len(dbOrders) + Len(jerseys) < MaxOrders
    /\ \E player \in PlayerInputs :
          IF Trim(player.name) = << >> \/ Trim(player.number) = << >>
          THEN UNCHANGED <<jerseys, size>>
          ELSE /\ jerseys' =
                     IF Trim(customerName) = << >>
                     THEN jerseys
                     ELSE Append(jerseys,
                              NewJersey(FormItem(Trim(player.name), Trim(player.number),
                                                 size, product, itemType),
                                        FreshId(jerseys)))
               /\ size' = <<"M">>
    /\ groupedItems' = GroupedItemsOf(jerseys')
    /\ total' = TotalOf(jerseys')
    /\ UNCHANGED <<product, itemType>>
    /\ UNCHANGED orderVars
    /\ UNCHANGED <<backendVars, OrderRest>>

\* OrderForm.handleBulkAdd, which calls handleAddJerseys of the page
HandleBulkAdd ==
    /\ ~showConfirmation
    /\ \E bulkText \in BulkTextInputs :
          LET newItems == BulkItems(bulkText, size, product, itemType)
          IN  /\ Len(dbOrders) + Len(jerseys) + Len(newItems) <= MaxOrders
              /\ jerseys' =
                    IF IsBlank(bulkText) \/ newItems = << >>
                          \/ Trim(customerName) = << >>
                    THEN jerseys
                    ELSE AppendJerseys(jerseys, newItems, Len(newItems))
    /\ groupedItems' = GroupedItemsOf(jerseys')
    /\ total' = TotalOf(jerseys')
    /\ UNCHANGED <<product, itemType, size>>
    /\ UNCHANGED orderVars
    /\ UNCHANGED <<backendVars, OrderRest>>

HandleRemoveJersey ==
    /\ ~showConfirmation
    /\ CartRemoveItem

\* handleSubmitOrder, tried while the order rows it can leave stay within
\* maxRows and fewer than maxCustomers customer rows were created
HandleSubmitOrderUpTo(maxRows, maxCustomers) ==
    /\ ~showConfirmation
    /\ Len(dbOrders) + Len(jerseys) <= maxRows
    /\ Len(dbCustomers) < Len(SeedCustomers) + maxCustomers
    /\ IF Trim(customerName) = << >> \/ Len(jerseys) = 0
       THEN UNCHANGED <<backendVars, showConfirmation>>
       ELSE LET batches == customerBatches(jerseys)
            IN  \E lookupFails \in [DOMAIN batches -> BOOLEAN],
                   errors \in [DOMAIN batches -> SubmitErrors] :
                   LET tables == SubmitRounds([customers |-> dbCustomers,
                                               orders |-> dbOrders,
                                               nextId |-> nextId,
                                               failed |-> FALSE],
                                              batches, Len(batches), authSession,
                                              lookupFails, errors)
                   IN  /\ dbCustomers' = tables.customers
                       /\ dbOrders' = tables.orders
                       /\ nextId' = tables.nextId
                       /\ showConfirmation' = ~tables.failed
    \* the confirmation replaces the page's tree: the form is unmounted and
    \* the next one starts from its useState defaults
    /\ IF showConfirmation'
       THEN product' = PRODUCTS[1] /\ itemType' = "Set" /\ size' = <<"M">>
       ELSE UNCHANGED <<product, itemType, size>>
    /\ UNCHANGED <<customerName, fbLink, phone, currentCustomerId>>
    /\ UNCHANGED <<batchVars, OrderRest>>

HandleSubmitOrder ==
    HandleSubmitOrderUpTo(MaxOrders, MaxNewCustomers)

HandleNewOrder ==
    /\ showConfirmation
    /\ currentCustomerId' = None
    /\ customerName' = << >>
    /\ fbLink' = << >>
    /\ phone' = << >>
    /\ jerseys' = << >>
    /\ groupedItems' = GroupedItemsOf(jerseys')
    /\ total' = TotalOf(jerseys')
    /\ showConfirmation' = FALSE
    /\ UNCHANGED <<product, itemType, size>>
    /\ UNCHANGED <<backendVars, OrderRest>>

OrderNext ==
    \/ SelectProduct
    \/ SelectItemType
    \/ SelectSize
    \/ HandleSubmit
    \/ HandleBulkAdd
    \/ HandleRemoveJersey
    \/ HandleSubmitOrder
    \/ HandleNewOrder

OrderSpec ==
    OrderInit /\ [][OrderNext]_vars

(***************************************************************************)
(* C17: every item added to the batch, by single entry or by bulk add,     *)
(* carries price = calculatePrice(product, itemType, size) for its own     *)
(* product, coverage and size as they were at the moment of adding, and on *)
(* submission the order row inserted for that item stores exactly that     *)
(* price, product_type, item_type and size.                                *)
(***************************************************************************)
\* the sizes written after a dash in the bulk texts, in upper case
SizesWritten == {<<"X", "L">>}

ItemFields(j) == <<j.price, j.product, j.itemType, j.size>>

RowFields(r) == <<r.price, r.product_type, r.item_type, r.size>>

\* every item of the batch and every stored row has the price of its own
\* product, coverage and size
ItemsCarryTheirPrice ==
    /\ \A i \in DOMAIN jerseys :
          jerseys[i].price =
             Some(calculatePrice(jerseys[i].product, jerseys[i].itemType,
                                 jerseys[i].size))
    /\ \A i \in DOMAIN dbOrders :
          dbOrders[i].price =
             Some(calculatePrice(dbOrders[i].product_type, dbOrders[i].item_type,
                                 dbOrders[i].size))

\* a step that adds items appends them with the product and coverage of the
\* form at that moment and the size of the form or of the line; no step
\* changes an item it keeps
AddedAsTheFormStands ==
    IF Len(jerseys') > Len(jerseys)
    THEN /\ SubSeq(jerseys', 1, Len(jerseys)) = jerseys
         /\ \A i \in (Len(jerseys) + 1)..Len(jerseys') :
               /\ jerseys'[i].product = product
               /\ jerseys'[i].itemType = itemType
               /\ jerseys'[i].size \in {size} \cup SizesWritten
               /\ jerseys'[i].price =
                     Some(calculatePrice(product, itemType, jerseys'[i].size))
    ELSE \A i \in DOMAIN jerseys' : \E k \in DOMAIN jerseys : jerseys'[i] = jerseys[k]

\* a step that changes the table of orders appends rows that store the
\* fields of items of the batch, one row an item when the submission
\* succeeds
RowsStoreTheItems ==
    dbOrders' # dbOrders =>
       LET new == SubSeq(dbOrders', Len(dbOrders) + 1, Len(dbOrders'))
           fields == {ItemFields(jerseys[i]) : i \in DOMAIN jerseys}
                        \cup {RowFields(new[i]) : i \in DOMAIN new}
           rowsWith(t) == Cardinality({i \in DOMAIN new : RowFields(new[i]) = t})
           itemsWith(t) ==
               Cardinality({i \in DOMAIN jerseys : ItemFields(jerseys[i]) = t})
       IN  /\ SubSeq(dbOrders', 1, Len(dbOrders)) = dbOrders
           /\ \A t \in fields : rowsWith(t) <= itemsWith(t)
           /\ showConfirmation' => \A t \in fields : rowsWith(t) = itemsWith(t)

C17_ItemsKeepTheirPrice ==
    /\ []ItemsCarryTheirPrice
    /\ [][AddedAsTheFormStands /\ RowsStoreTheItems]_vars

\* stored: a row of a line with a written size and a row of another
\* product with a junior size picked in the form
C17_Witness ==
    \E i, k \in DOMAIN dbOrders :
       /\ dbOrders[i].size \in SizesWritten
       /\ dbOrders[k].size = <<"6">>
       /\ dbOrders[i].product_type # dbOrders[k].product_type
       /\ dbOrders[i].price # dbOrders[k].price

(***************************************************************************)
(* AuthSpec: one mount of the Admin page at /admin under hook              *)
(* useAdminAuth.  The session of the browser changes while the page is     *)
(* open; the hook hears of it through getSession and onAuthStateChange and *)
(* looks the role up.  navigate("/auth") leaves the page: it is unmounted, *)
(* its subscription ends and React ignores the setters of what still       *)
(* resolves.                                                               *)
(***************************************************************************)
\* who can be signed in at the browser
Sessions == {None, Some("admin1"), Some("r1")}

\* policy "Users can view their own roles"
UsersCanViewTheirOwnRoles(uid, row) ==
    uid # None /\ uid[1] = row.user_id

\* the rows the query of checkAdminRole finds; the request carries the
\* session of the user it asks about
AdminRoleRows(userId) ==
    {r \in user_roles :
        /\ UsersCanViewTheirOwnRoles(Some(userId), r)
        /\ r.user_id = userId
        /\ r.role = "admin"}

\* the Admin page is on screen
Mounted ==
    location = "/admin"

\* the orders in the table when the page opens
SeedOrders ==
    {<<OrderRow(FirstFreeId, SeedCustomers[1].id, item)>> : item \in SubmittedItems}

AuthInit ==
    /\ PricingIdle
    /\ BatchIdle
    /\ OrderIdle
    /\ ResellerIdle
    /\ AdminIdle
    /\ authSession \in Sessions
    /\ user = None
    /\ isAdmin = FALSE
    /\ authLoading = TRUE
    /\ location = "/admin"
    /\ sessionRequest = TRUE
    /\ lookups = {}
    /\ roleChecked = None
    /\ AccountsIdle
    /\ dbCustomers = SeedCustomers
    /\ dbOrders \in SeedOrders
    /\ nextId = FirstFreeId + 1

\* what the hook does with a session it is handed, by getSession or by an
\* event; a lookup of the role is started for a user
SessionHandled(session) ==
    /\ user' = session
    /\ IF session = None
       THEN /\ isAdmin' = FALSE
            /\ authLoading' = FALSE
            /\ location' = "/auth"
            /\ roleChecked' = None
            /\ UNCHANGED lookups
       ELSE /\ lookups' = lookups \cup {session[1]}
            /\ UNCHANGED <<isAdmin, authLoading, location, roleChecked>>

\* supabase.auth.getSession().then(...)
GetSessionResolved ==
    /\ sessionRequest
    /\ sessionRequest' = FALSE
    /\ IF Mounted
       THEN SessionHandled(authSession)
       ELSE UNCHANGED <<user, isAdmin, authLoading, location, lookups, roleChecked>>
    /\ UNCHANGED authSession
    /\ UNCHANGED <<pricingVars, historyVars, batchVars, orderVars>>
    /\ UNCHANGED <<backendVars, accountVars, adminVars, resellerVars>>

\* somebody signs in or out, or the token is refreshed; the callback of
\* onAuthStateChange runs while the page is subscribed
AuthStateChanged ==
    /\ \E session \in Sessions :
          /\ authSession' = session
          /\ IF Mounted
             THEN SessionHandled(session)
             ELSE UNCHANGED <<user, isAdmin, authLoading, location, lookups,
                              roleChecked>>
    /\ UNCHANGED sessionRequest
    /\ UNCHANGED <<pricingVars, historyVars, batchVars, orderVars>>
    /\ UNCHANGED <<backendVars, accountVars, adminVars, resellerVars>>

\* the answer of the lookup without the redirect of a user without the role
CheckAdminRole_NoRedirect ==
    /\ \E userId \in lookups, error \in BOOLEAN :
          LET data == AdminRoleRows(userId)
          IN  /\ lookups' = lookups \ {userId}
              /\ UNCHANGED location
              /\ IF Mounted
                 THEN /\ isAdmin' = ~(error \/ data = {})
                      /\ authLoading' = FALSE
                      /\ roleChecked' = IF error \/ data = {} THEN None ELSE Some(userId)
                 ELSE UNCHANGED <<isAdmin, authLoading, roleChecked>>
    /\ UNCHANGED <<authSession, user, sessionRequest>>
    /\ UNCHANGED <<pricingVars, historyVars, batchVars, orderVars>>
    /\ UNCHANGED <<backendVars, accountVars, adminVars, resellerVars>>

\* checkAdminRole(userId) gets its answer
CheckAdminRole ==
    /\ \E userId \in lookups, error \in BOOLEAN :
          LET data == AdminRoleRows(userId)
          IN  /\ lookups' = lookups \ {userId}
              /\ IF error \/ data = {}
                 THEN /\ location' = "/auth"
                      /\ IF Mounted
                         THEN /\ isAdmin' = FALSE
                              /\ authLoading' = FALSE
                              /\ roleChecked' = None
                         ELSE UNCHANGED <<isAdmin, authLoading, roleChecked>>
                 ELSE /\ UNCHANGED location
                      /\ IF Mounted
                         THEN /\ isAdmin' = TRUE
                              /\ authLoading' = FALSE
                              /\ roleChecked' = Some(userId)
                         ELSE UNCHANGED <<isAdmin, authLoading, roleChecked>>
    /\ UNCHANGED <<authSession, user, sessionRequest>>
    /\ UNCHANGED <<pricingVars, historyVars, batchVars, orderVars>>
    /\ UNCHANGED <<backendVars, accountVars, adminVars, resellerVars>>

AuthNext ==
    \/ GetSessionResolved
    \/ AuthStateChanged
    \/ CheckAdminRole
    \/ FetchOrders

AuthSpec ==
    AuthInit /\ [][AuthNext]_vars

(***************************************************************************)
(* C19: useAdminAuth redirects every non-authenticated user and every      *)
(* authenticated user without an admin row in user_roles to /auth, and the *)
(* Admin page renders nothing and fetches no orders unless a user is       *)
(* present and isAdmin is true.                                            *)
(***************************************************************************)
\* the users with an admin row
AdminUsers == {"admin1"}

\* once the hook has stopped loading without a user or without the role,
\* the browser is at /auth
OthersAreRedirected ==
    (~authLoading /\ (user = None \/ ~isAdmin)) => location = "/auth"

\* with nothing left to resolve, the page is still at /admin only for a user
\* with an admin row
SettledAtAdminMeansAdmin ==
    (location = "/admin" /\ ~sessionRequest /\ lookups = {}) =>
       /\ user # None
       /\ user[1] \in AdminUsers
       /\ isAdmin

\* the page shows something only with a user and isAdmin
RendersOnlyForAdmin ==
    AdminRenders => (user # None /\ isAdmin)

\* a step that changes the orders of the page is taken with a user and
\* isAdmin
FetchesOnlyForAdmin ==
    adminOrders' # adminOrders => (user # None /\ isAdmin)

C19_OnlyAdminsStayAndFetch ==
    /\ [](OthersAreRedirected /\ SettledAtAdminMeansAdmin /\ RendersOnlyForAdmin)
    /\ [][FetchesOnlyForAdmin]_vars

\* an admin has had the orders fetched, then a user without an admin row
\* signed in and was sent to /auth
C19_Witness ==
    /\ adminOrders # << >>
    /\ user # None
    /\ user[1] \notin AdminUsers
    /\ ~isAdmin
    /\ location = "/auth"

(***************************************************************************)
(* ResellerSpec: reseller r1 has the Reseller page open; orders come in    *)
(* for the customers of both resellers and an admin confirms orders in     *)
(* another browser.                                                        *)
(***************************************************************************)
ResellerInit ==
    /\ PricingIdle
    /\ BatchIdle
    /\ OrderIdle
    /\ AdminIdle
    /\ ResellerIdle
    /\ HookIdle
    /\ AccountsIdle
    /\ authSession = Some("r1")
    /\ dbCustomers = SeedCustomers
    /\ dbOrders = << >>
    /\ nextId = FirstFreeId

\* what the Reseller page leaves alone
ResellerRest ==
    <<pricingVars, historyVars, batchVars, orderVars, authVars, adminVars>>

\* the rows of a table without those with an id of ids
WithoutIds(rows, ids) ==
    SelectSeq(rows, LAMBDA row : row.id \notin ids)

\* confirmBatch of the Admin page on one order, run by admin1
AdminConfirmsOrder ==
    /\ \E row \in Range(dbOrders) :
          /\ row.status = "pending"
          /\ dbOrders' = OrdersUpdateStatus(dbOrders, Some("admin1"), {row.id},
                                            "in_production")
    /\ UNCHANGED <<dbCustomers, nextId>>
    /\ UNCHANGED <<ResellerRest, resellerVars>>

\* fetchOrders of the Reseller page: the customers are set before the orders
\* are asked for.  resellerToast is the toast the last handler of the page
\* showed, None when it showed none
ResellerFetchOrders ==
    /\ authSession # None
    /\ resellerCustomers' = ResellerCustomersSelect(dbCustomers, authSession)
    /\ \E error \in BOOLEAN :
          IF error
          THEN /\ resellerToast' = Some("Error")
               /\ UNCHANGED resellerOrders
          ELSE /\ resellerOrders' = ResellerSelect(dbCustomers, dbOrders, authSession)
               /\ resellerToast' = None
    /\ UNCHANGED <<backendVars, ResellerRest>>

\* handleDeleteOrder(orderToDelete); the button is shown for an order that is
\* pending in the list of the page
HandleDeleteOrder ==
    /\ \E order \in Range(resellerOrders), error \in BOOLEAN :
          /\ order.status = "pending"
          /\ LET data == IF error
                         THEN << >>
                         ELSE OrdersDeleted(dbOrders, dbCustomers, authSession, order.id)
             IN  /\ dbOrders' = WithoutIds(dbOrders, RowIds(data))
                 /\ IF data = << >>
                    THEN /\ resellerToast' = Some("Delete Failed")
                         /\ UNCHANGED resellerOrders
                    ELSE /\ resellerToast' = Some("Order Deleted")
                         /\ resellerOrders' = WithoutIds(resellerOrders, {order.id})
    /\ UNCHANGED resellerCustomers
    /\ UNCHANGED <<dbCustomers, nextId>>
    /\ UNCHANGED ResellerRest

\* the rows .from("customers").delete().eq("id", customerId) removes
CustomersDeleted(customers, uid, customerId) ==
    SelectSeq(customers, LAMBDA row :
        /\ row.id = customerId
        /\ ResellersCanDeleteTheirOwnCustomers(uid, row))

\* orders.customer_id REFERENCES customers(id) ON DELETE CASCADE
OrdersAfterCascade(orders, customerIds) ==
    SelectSeq(orders, LAMBDA row : row.customer_id \notin customerIds)

\* handleDeleteCustomer(customerToDelete), with the fetchOrders it awaits
HandleDeleteCustomer ==
    /\ \E customer \in Range(resellerCustomers), error \in BOOLEAN, fetchError \in BOOLEAN :
          LET data == IF error
                      THEN << >>
                      ELSE CustomersDeleted(dbCustomers, authSession, customer.id)
          IN  /\ dbCustomers' = WithoutIds(dbCustomers, RowIds(data))
              /\ dbOrders' = OrdersAfterCascade(dbOrders, RowIds(data))
              /\ IF data = << >>
                 THEN /\ resellerToast' = Some("Delete Failed")
                      /\ UNCHANGED <<resellerCustomers, resellerOrders>>
                 ELSE /\ resellerToast' = Some("Customer Removed")
                      /\ resellerCustomers' =
                            ResellerCustomersSelect(dbCustomers', authSession)
                      /\ resellerOrders' =
                            IF fetchError
                            THEN resellerOrders
                            ELSE ResellerSelect(dbCustomers', dbOrders', authSession)
    /\ UNCHANGED nextId
    /\ UNCHANGED ResellerRest

ResellerNext ==
    \/ OrderSubmitted
    \/ AdminConfirmsOrder
    \/ ResellerFetchOrders
    \/ HandleDeleteOrder
    \/ HandleDeleteCustomer

ResellerSpec ==
    ResellerInit /\ [][ResellerNext]_vars

(***************************************************************************)
(* C20: a reseller can delete an order only if it belongs to one of their  *)
(* own customers and its status is pending, an admin can delete any order, *)
(* and handleDeleteOrder removes the order from the local list only when   *)
(* the backend reports a deleted row; otherwise the local list is          *)
(* unchanged and an error is shown.                                        *)
(***************************************************************************)
\* the resellers and the admin of the claim
ResellerUsers == {"r1", "r2"}

\* the order is one of a customer of the reseller and is pending
OwnAndPending(customers, row, reseller) ==
    /\ row.status = "pending"
    /\ \E i \in DOMAIN customers :
          /\ customers[i].id = row.customer_id
          /\ customers[i].reseller_id = <<reseller>>

\* the delete policy of the orders lets a reseller through for their own
\* pending orders only, and an admin for every order
PolicyKeepsTheRule ==
    \A i \in DOMAIN dbOrders :
       /\ \A reseller \in ResellerUsers :
             OrdersDeleted(dbOrders, dbCustomers, <<reseller>>, dbOrders[i].id) # << >>
                => OwnAndPending(dbCustomers, dbOrders[i], reseller)
       /\ OrdersDeleted(dbOrders, dbCustomers, <<"admin1">>, dbOrders[i].id)
             = <<dbOrders[i]>>

\* every order a step of the signed-in reseller takes out of the table was
\* pending and of a customer of theirs
ResellerDeletesOwnPendingOnly ==
    \A i \in DOMAIN dbOrders :
       (authSession # None /\ \A k \in DOMAIN dbOrders' : dbOrders'[k].id # dbOrders[i].id)
          => OwnAndPending(dbCustomers, dbOrders[i], authSession[1])

\* a step of handleDeleteOrder that changes the list of the page shows
\* "Order Deleted" and takes out of the list the one order it took out of
\* the table; a step that shows "Delete Failed" leaves the list as it was
LocalListFollowsTheBackend ==
    /\ (resellerToast' = <<"Order Deleted">> /\ resellerOrders' # resellerOrders) =>
          \E id \in RowIds(dbOrders) \ RowIds(dbOrders') :
             /\ RowIds(dbOrders') = RowIds(dbOrders) \ {id}
             /\ resellerOrders' =
                   SelectSeq(resellerOrders, LAMBDA o : o.id # id)
    /\ resellerToast' = <<"Delete Failed">> => resellerOrders' = resellerOrders
    /\ resellerOrders' # resellerOrders =>
          resellerToast' \in {<< >>, <<"Order Deleted">>, <<"Customer Removed">>}

C20_DeleteOnlyOwnPending ==
    /\ []PolicyKeepsTheRule
    /\ [][ResellerDeletesOwnPendingOnly /\ LocalListFollowsTheBackend]_vars

(***************************************************************************)
(* C28: for a flat-goods productType, the junior numeric sizes "4" to "20" *)
(* get no junior pricing: getPriceDetails returns 320 and the category     *)
(* "{productType} (Standard)" for them, for every coverage.                *)
(***************************************************************************)
C28_FlatGoodsHaveNoJuniorTier ==
    (Returned /\ product \in FlatGoodsProducts /\ size \in JuniorTokens)
       => /\ result.price = 320
          /\ result.category =
                product \o <<" ", "(", "S", "t", "a", "n", "d", "a", "r", "d", ")">>

C28_Witness ==
    /\ Returned
    /\ product = Hoodie
    /\ size = Size_6
    /\ itemType = "Upper"
    /\ result.price = 320

(***************************************************************************)
(* SignupSpec: people sign up; trigger on_auth_user_created runs           *)
(* handle_new_user for the new row of auth.users in the transaction of the *)
(* insert.                                                                 *)
(***************************************************************************)
MaxUsers == 3

\* the addresses people sign up with
Emails == {"a@x", "b@x", "c@x"}

\* raw_user_meta_data->>'requested_role': missing, what the Auth page
\* sends, and other texts a client can send
RequestedRoles ==
    {None, Some("admin"), Some("reseller"), Some("user"), Some("")}

\* COALESCE(a, b)
COALESCE(a, b) ==
    IF a # None THEN a[1] ELSE b

\* CHECK (role IN ('admin', 'reseller')) of table profiles
ProfilesRoleCheck(role) ==
    role \in {"admin", "reseller"}

\* variant: a row of user_roles for an admin only
handle_new_user_AdminRowOnly(tables, new_row) ==
    LET role_to_assign == COALESCE(new_row.requested_role, "reseller")
    IN  IF ~ProfilesRoleCheck(role_to_assign)
        THEN [tables EXCEPT !.raised = TRUE]
        ELSE [profiles |-> Append(tables.profiles,
                              [id |-> new_row.id, email |-> new_row.email,
                               role |-> role_to_assign]),
              user_roles |-> IF role_to_assign = "admin"
                             THEN Append(tables.user_roles,
                                      [user_id |-> new_row.id, role |-> "admin"])
                             ELSE tables.user_roles,
              raised |-> FALSE]

\* handle_new_user on tables profiles and user_roles; raised: an insert
\* broke a constraint and the transaction is rolled back
handle_new_user(tables, new_row) ==
    LET role_to_assign == COALESCE(new_row.requested_role, "reseller")
    IN  IF ~ProfilesRoleCheck(role_to_assign)
        THEN [tables EXCEPT !.raised = TRUE]
        ELSE [profiles |-> Append(tables.profiles,
                              [id |-> new_row.id, email |-> new_row.email,
                               role |-> role_to_assign]),
              user_roles |-> IF role_to_assign = "admin"
                             THEN Append(tables.user_roles,
                                      [user_id |-> new_row.id, role |-> "admin"])
                             ELSE Append(tables.user_roles,
                                      [user_id |-> new_row.id, role |-> "user"]),
              raised |-> FALSE]

SignupInit ==
    /\ PricingIdle
    /\ BatchIdle
    /\ OrderIdle
    /\ BackendIdle
    /\ AdminIdle
    /\ ResellerIdle
    /\ AuthIdle

\* supabase.auth.signUp: a row of auth.users with a fresh id, and the
\* trigger; an address already taken or a raised trigger leaves no row
SignUp ==
    /\ Len(authUsers) < MaxUsers
    /\ \E email \in Emails, requested_role \in RequestedRoles :
          LET new_row == [id |-> Len(authUsers) + 1, email |-> email,
                      requested_role |-> requested_role]
              tables == handle_new_user([profiles |-> dbProfiles,
                                         user_roles |-> dbUserRoles,
                                         raised |-> FALSE], new_row)
          IN  IF (\E i \in DOMAIN authUsers : authUsers[i].email = email)
                    \/ tables.raised
              THEN UNCHANGED accountVars
              ELSE /\ authUsers' = Append(authUsers, new_row)
                   /\ dbProfiles' = tables.profiles
                   /\ dbUserRoles' = tables.user_roles
    /\ UNCHANGED <<authSession, user, isAdmin, authLoading, location,
                   sessionRequest, lookups, roleChecked>>
    /\ UNCHANGED <<pricingVars, historyVars, batchVars, orderVars>>
    /\ UNCHANGED <<backendVars, adminVars, resellerVars>>

SignupNext ==
    SignUp

SignupSpec ==
    SignupInit /\ [][SignupNext]_vars

(***************************************************************************)
(* C21: handle_new_user gives every new user one profile row and exactly   *)
(* one user_roles row: role 'admin' exactly when the signup metadata       *)
(* requested_role is 'admin', role 'user' otherwise, with the profile role *)
(* defaulting to 'reseller' when no role was requested.                    *)
(***************************************************************************)
C21_OneProfileOneRole ==
    \A i \in DOMAIN authUsers :
       LET u == authUsers[i]
           ownProfiles == {k \in DOMAIN dbProfiles : dbProfiles[k].id = u.id}
           ownRoles == {k \in DOMAIN dbUserRoles : dbUserRoles[k].user_id = u.id}
       IN  /\ Cardinality(ownProfiles) = 1
           /\ Cardinality(ownRoles) = 1
           /\ \A k \in ownRoles :
                 dbUserRoles[k].role =
                    IF u.requested_role = <<"admin">> THEN "admin" ELSE "user"
           /\ u.requested_role = << >> =>
                 \A k \in ownProfiles : dbProfiles[k].role = "reseller"

\* signed up: somebody without a requested role and somebody as admin
C21_Witness ==
    \E i, k \in DOMAIN authUsers :
       /\ authUsers[i].requested_role = << >>
       /\ authUsers[k].requested_role = <<"admin">>
       /\ Len(dbProfiles) = Len(authUsers)
       /\ Len(dbUserRoles) = Len(authUsers)


(***************************************************************************)
(* Confirming a batch on the Admin page                                    *)
(***************************************************************************)
\* the customer names the local list has orders of
BatchNames ==
    {OrUnknown(o.customers.team_name) : o \in Range(adminOrders)}

\* the ids of the local orders of a customer name
BatchOrderIds(name) ==
    {o.id : o \in {p \in Range(adminOrders) :
                      OrUnknown(p.customers.team_name) = name}}

\* the ids of the local orders of a customer name that are pending
BatchPendingOrderIds(name) ==
    {o.id : o \in {p \in Range(adminOrders) :
                      /\ OrUnknown(p.customers.team_name) = name
                      /\ p.status = "pending"}}

\* rows are the rows before with the status of the rows of ids set to
\* in_production and nothing else changed
OnlyMovedToProduction(before, rows, ids) ==
    /\ Len(rows) = Len(before)
    /\ \A i \in DOMAIN before :
          rows[i] = IF before[i].id \in ids
                    THEN [before[i] EXCEPT !.status = "in_production"]
                    ELSE before[i]

\* a step of confirmBatch that changes the backend or the local list
ConfirmBatchChanges ==
    /\ (adminOrders' # adminOrders \/ dbOrders' # dbOrders)
    /\ ConfirmBatch

\* the step moves the pending orders of one customer name, which has some
\* and whose rows are pending in the backend, and changes nothing else
MovesThePendingOfOneBatch ==
    \E name \in BatchNames :
       /\ BatchPendingOrderIds(name) # {}
       /\ \A row \in Range(dbOrders) :
             row.id \in BatchPendingOrderIds(name) => row.status = "pending"
       /\ OnlyMovedToProduction(adminOrders, adminOrders', BatchPendingOrderIds(name))
       /\ OnlyMovedToProduction(dbOrders, dbOrders', BatchPendingOrderIds(name))

\* C22: confirmBatch(batchOrders) changes exactly the orders of the batch
\* whose status is pending to in_production; the orders of the batch in any
\* other status and all orders outside the batch keep their status, and a
\* batch with no pending order causes no backend update and no state change:
\* a step of confirmBatch changes nothing, or it moves the pending orders
\* of one batch that has some and nothing else.
C22_ConfirmBatchMovesOnlyPending ==
    [][ConfirmBatchChanges => MovesThePendingOfOneBatch]_vars

\* the orders of a customer name after the batch was confirmed that had a
\* shipped order next to its pending one
C22_Witness ==
    \E o1 \in Range(adminOrders), o2 \in Range(adminOrders) :
          /\ o1.customers.team_name = o2.customers.team_name
          /\ o1.status = "shipped"
          /\ o2.status = "in_production"
          /\ \E r1 \in Range(dbOrders), r2 \in Range(dbOrders) :
                /\ r1.id = o1.id /\ r1.status = "shipped"
                /\ r2.id = o2.id /\ r2.status = "in_production"


(***************************************************************************)
(* The local list of the Admin page and the backend                        *)
(***************************************************************************)
\* the backend rows of a local order
BackendRowsOf(order) ==
    {row \in Range(dbOrders) : row.id = order.id}

\* a local order shows the status of its backend row, and the price it
\* stores, when it stores one, is the price of its backend row
ShowsItsBackendRow(order) ==
    /\ BackendRowsOf(order) # {}
    /\ \A row \in BackendRowsOf(order) :
          /\ order.status = row.status
          /\ order.price # None => order.price = row.price

\* C23: when the backend update of updateOrderStatus, confirmBatch,
\* confirmAllPending or updateOrderPrice fails, the local list is left as it
\* was, so the status and the price the dashboard holds for an order never
\* diverge from the backend because of a failed update: at every moment
\* each local order has the status of its backend row and, when it stores
\* a price, the price of its backend row.
C23_FailedUpdateKeepsTheList ==
    \A order \in Range(adminOrders) : ShowsItsBackendRow(order)

\* updates went through and updates failed: a shipped order with an edited
\* price next to a pending one, all as the backend has them
C23_Witness ==
    /\ C23_FailedUpdateKeepsTheList
    /\ \E o1 \in Range(adminOrders), o2 \in Range(adminOrders) :
          /\ o1.status = "shipped"
          /\ o1.price = Some(150)
          /\ o2.status = "pending"


(***************************************************************************)
(* An edited price on the Admin page                                       *)
(***************************************************************************)
\* the dashboard shows for the order the price its backend row stores
ShowsStoredPrice(orders, rows, id) ==
    \A o \in Range(orders), row \in Range(rows) :
       (o.id = id /\ row.id = id /\ row.price # None)
          => AdminItemPrice(o) = row.price[1]

\* C24: after updateOrderPrice(order, p) succeeds the dashboard shows price
\* p for that order and uses p in the revenue and batch totals, and this
\* still holds after any later fetchOrders refresh until the price is
\* edited again: a step that leaves the backend rows as they are leaves
\* every stored price that is shown, shown.
C24_EditedPriceSurvivesRefresh ==
    [][dbOrders' = dbOrders =>
          \A id \in {row.id : row \in {r \in Range(dbOrders) : r.price # None}} :
             ShowsStoredPrice(adminOrders, dbOrders, id)
                => ShowsStoredPrice(adminOrders', dbOrders', id)]_vars


(***************************************************************************)
(* isAdmin and the signed-in user                                          *)
(***************************************************************************)
\* C27: in useAdminAuth, isAdmin is true only while the currently signed-in
\* user has the admin role: under any interleaving of auth-state events and
\* pending user_roles lookups, isAdmin is never true when there is no user
\* or when the current user is not an admin.  Stated of the hook while the
\* page that uses it is mounted.
C27_IsAdminOnlyForAnAdmin ==
    (Mounted /\ isAdmin) => (user # None /\ user[1] \in AdminUsers)


(***************************************************************************)
(* BatchSubmitSpec: one batch from the opening of the order page to its    *)
(* confirmation.  A reseller or a visitor types the customer of the next   *)
(* items, adds items with the form left as it opens, and submits; a        *)
(* submission that fails leaves the batch on the page and is tried again.  *)
(***************************************************************************)
\* the rows of failed attempts a new attempt may find in table orders
MaxRetryRows ==
    1

\* what is typed into the customer name and phone fields; reseller r1 has
\* a customer named A
CustomerNameInputs ==
    {<<"A">>, <<"N">>}

PhoneInputs ==
    {<< >>, <<"1">>}

\* the page opens without initialCustomerData
BatchSubmitInit ==
    /\ result = NoResult /\ priceResult = None /\ pc = "idle"
    /\ ncalls = 0 /\ earlier = NoCall
    /\ BatchIdle
    /\ HookIdle
    /\ AccountsIdle
    /\ AdminIdle
    /\ ResellerIdle
    /\ OrderIdle
    /\ product = PRODUCTS[1]
    /\ itemType = "Set"
    /\ size = <<"M">>
    /\ dbCustomers = SeedCustomers
    /\ dbOrders = << >>
    /\ nextId = FirstFreeId
    /\ authSession \in {None, Some("r1")}

\* onCustomerNameChange={setCustomerName}
SetCustomerName ==
    /\ ~showConfirmation
    /\ \E name \in CustomerNameInputs : customerName' = name
    /\ UNCHANGED <<fbLink, phone, currentCustomerId, showConfirmation>>
    /\ UNCHANGED <<product, itemType, size>>
    /\ UNCHANGED <<batchVars, backendVars, OrderRest>>

\* onPhoneChange={setPhone}
SetPhone ==
    /\ ~showConfirmation
    /\ \E number \in PhoneInputs : phone' = number
    /\ UNCHANGED <<customerName, fbLink, currentCustomerId, showConfirmation>>
    /\ UNCHANGED <<product, itemType, size>>
    /\ UNCHANGED <<batchVars, backendVars, OrderRest>>

\* handleSubmitOrder, also when rows of an attempt that failed are there
HandleSubmitOrderAgain ==
    HandleSubmitOrderUpTo(MaxOrders + MaxRetryRows, MaxNewCustomers)

BatchSubmitNext ==
    \/ SetCustomerName
    \/ SetPhone
    \/ HandleSubmit
    \/ HandleSubmitOrderAgain

BatchSubmitSpec ==
    BatchSubmitInit /\ [][BatchSubmitNext]_vars

(***************************************************************************)
(* Attempts and retries of one batch                                       *)
(***************************************************************************)
\* the order rows stored under a customer row of the name
RowsForName(name) ==
    {r \in Range(dbOrders) :
        \E c \in Range(dbCustomers) : c.id = r.customer_id /\ c.team_name = name}

\* the items of the batch added for the name
ItemsForName(name) ==
    {i \in DOMAIN jerseys : jerseys[i].customerName = name}

\* the customer rows created since the page opened for the customer an
\* item of the batch was added for
CreatedFor(j) ==
    {i \in DOMAIN dbCustomers :
        /\ i > Len(SeedCustomers)
        /\ dbCustomers[i].team_name = j.customerName
        /\ dbCustomers[i].fb_link = OrEmptyString(j.customerFb)
        /\ dbCustomers[i].contact_phone = OrEmptyString(j.customerPhone)}

\* C25: over any sequence of handleSubmitOrder attempts on one batch,
\* including attempts that fail partway through and are retried, each batch
\* item is persisted as at most one order row and each customer of the
\* batch as at most one newly created customer row: no name has more order
\* rows than the batch has items for it, and no customer of the batch has
\* two rows created for it.
C25_EachItemAndCustomerOnce ==
    /\ \A name \in CustomerNameInputs :
          Cardinality(RowsForName(name)) <= Cardinality(ItemsForName(name))
    /\ \A j \in Range(jerseys) :
          Cardinality(CreatedFor(j)) <= 1


(***************************************************************************)
(* The groups of the cart and the customer records of a submission         *)
(***************************************************************************)
\* the items of the batches one after the other: the order in which a
\* submission without failure inserts their rows
RECURSIVE ItemsInRowOrder(_, _)
ItemsInRowOrder(batches, n) ==
    IF n = 0
    THEN << >>
    ELSE ItemsInRowOrder(batches, n - 1) \o batches[n].items

\* the first submission of the batch, and it succeeds
FirstSubmissionSucceeds ==
    /\ dbOrders = << >>
    /\ ~showConfirmation
    /\ showConfirmation'

\* C26: two batch items that BatchCart shows in the same customer group
\* (same customer name and phone) are submitted by handleSubmitOrder under
\* the same customer record, and two items shown in different groups are
\* submitted under different customer records.
C26_CartGroupsAreCustomerRecords ==
    [][FirstSubmissionSucceeds =>
          LET items == ItemsInRowOrder(customerBatches(jerseys),
                                       Len(customerBatches(jerseys)))
          IN  /\ Len(dbOrders') = Len(items)
              /\ \A k1 \in DOMAIN items, k2 \in DOMAIN items :
                    (CustomerKey(items[k1]) = CustomerKey(items[k2]))
                       <=> (dbOrders'[k1].customer_id = dbOrders'[k2].customer_id)]_vars

=============================================================================
